---- MODULE Spec2Model ----
(***************************************************************************)
(* Catch-It: the multi-leg trip planner.                                   *)
(*                                                                         *)
(*   routes.ts          duration/time codec, itinerary summarizer and the  *)
(*                      route normalizer (computeRoutes)                   *)
(*   ResultsScreen.tsx  lines 558-863: the multi-stop PlanTripScreen with  *)
(*                      canSearch / onSearch (the leg planner) and the     *)
(*                      stop-editing handlers                              *)
(*                                                                         *)
(* Encoding of JavaScript values.                                          *)
(*   optional value   <<>> is undefined/null, <<v>> is the value v         *)
(*   Date             its epoch milliseconds; an Invalid Date is <<>> in   *)
(*                    an optional                                          *)
(*   number | NaN     <<n>> | <<>>                                         *)
(*   timestamp text   [valid, ms, raw]: a string that Date parses to ms,   *)
(*                    or a string Date cannot parse (raw is its text)      *)
(*   duration text    the sequence of its characters                       *)
(*   itinerary line   the sequence of the pieces the code joins by spaces  *)
(***************************************************************************)
EXTENDS Integers, Sequences, FiniteSets, TLC

VARIABLES
  stops,            \* useState<StopDraft[]>                      (569)
  startTimeMode,    \* useState<StartTimeMode>                    (561)
  customStartAt,    \* useState<Date>                             (562)
  activeDatePicker, \* useState<{kind:'start'}|{kind:'stop',..}>  (563)
  activeStopIndex,  \* useState<number | null>                    (574)
  lookups,          \* getPlaceDetails calls awaited by pickSuggestionForStop
  searching,        \* useState(false)                            (613)
  error,            \* useState<string | null>                    (614)
  run,              \* the onSearch invocation suspended at its await
  inflight,         \* computeRoutes requests the provider has not answered
  issued,           \* requests issued by the latest onSearch, in order
  screen,           \* the screen on top of the navigation stack
  params,           \* route.params of the latest nav.navigate('Results')
  chosen,           \* Results screen: the option pinned per leg
  rejections,       \* history: messages of the computeRoutes calls that rejected
  normalized,       \* history: what computeRoutes returned for each leg of params
  responses,        \* history: the provider's routes for each leg of params
  nextId,           \* ids handed out by makeId so far
  started,          \* plan computations started so far
  edits,            \* editing gestures made so far
  fn                \* the call under study in the codec/normalizer specs

vars == <<stops, startTimeMode, customStartAt, activeDatePicker, activeStopIndex,
          lookups, searching, error, run, inflight, issued, screen, params,
          chosen, rejections, normalized, responses, nextId, started, edits, fn>>

uiVars == <<stops, startTimeMode, customStartAt, activeDatePicker, activeStopIndex,
            lookups, nextId, edits>>

planVars == <<searching, error, run, inflight, issued, screen, params, chosen, started,
              rejections, normalized, responses>>

-----------------------------------------------------------------------------
(* Bounds of the model *)

MaxStops == 3
MaxSteps == 2
MaxLen == 3
MaxSearches == 1
MaxEdits == 2

-----------------------------------------------------------------------------
(* Optional values *)

None == <<>>
Some(v) == <<v>>
IsSome(o) == o # <<>>
Get(o) == o[1]

Max(a, b) == IF a >= b THEN a ELSE b

-----------------------------------------------------------------------------
(* Timestamps *)

\* Number * 1000 in estimateStartAtISOFromArrival
MsPerSecond == 1000
\* seconds / 60 in fmtMinutes
SecondsPerMinute == 60
\* dwell minutes to milliseconds
MsPerMinute == 60000

\* Date.prototype.toISOString of a valid Date
ToISOString(ms) == [valid |-> TRUE, ms |-> ms, raw |-> "iso"]

\* a string that is no timestamp
BadTime(text) == [valid |-> FALSE, ms |-> 0, raw |-> text]

\* new Date(text).getTime(): the instant, or NaN
DateParse(text) == IF text.valid THEN Some(text.ms) ELSE None

\* text.length of a timestamp string
TimeTextLength(text) == IF text.valid THEN 20 ELSE Len(text.raw)

\* Date.prototype.toLocaleTimeString([], {hour, minute})
ToLocaleTimeString(ms) == "time" \o ToString(ms)

-----------------------------------------------------------------------------
(* Duration/Time codec, routes.ts 60-99 *)

Digits == {"0", "1", "2", "3", "4", "5", "6", "7", "8", "9"}

DigitValue(c) ==
  CASE c = "0" -> 0 [] c = "1" -> 1 [] c = "2" -> 2 [] c = "3" -> 3 [] c = "4" -> 4
    [] c = "5" -> 5 [] c = "6" -> 6 [] c = "7" -> 7 [] c = "8" -> 8 [] c = "9" -> 9

\* Number(m[1]) of a string of decimal digits
RECURSIVE NumberOfDigits(_)
NumberOfDigits(ds) ==
  IF ds = <<>> THEN 0
  ELSE NumberOfDigits(SubSeq(ds, 1, Len(ds) - 1)) * 10 + DigitValue(ds[Len(ds)])

\* duration.match(/^(\d+)s$/)
MatchDuration(chars) ==
  /\ Len(chars) >= 2
  /\ chars[Len(chars)] = "s"
  /\ \A k \in 1..(Len(chars) - 1) : chars[k] \in Digits

\* a faulty variant: the pattern without its start anchor, /(\d+)s$/
RECURSIVE TrailingDigits(_)
TrailingDigits(ds) ==
  IF ds = <<>> \/ ds[Len(ds)] \notin Digits THEN <<>>
  ELSE Append(TrailingDigits(SubSeq(ds, 1, Len(ds) - 1)), ds[Len(ds)])

parseDurationSecondsUnanchored(duration) ==
  IF ~IsSome(duration) \/ Get(duration) = <<>> THEN None
  ELSE LET chars == Get(duration)
           ds == TrailingDigits(SubSeq(chars, 1, Len(chars) - 1))
       IN IF chars[Len(chars)] = "s" /\ ds # <<>> THEN Some(NumberOfDigits(ds)) ELSE None

parseDurationSeconds(duration) ==
  IF ~IsSome(duration) \/ Get(duration) = <<>> THEN None
  ELSE IF ~MatchDuration(Get(duration)) THEN None
  ELSE Some(NumberOfDigits(SubSeq(Get(duration), 1, Len(Get(duration)) - 1)))

\* a faulty variant of fmtMinutes: Math.floor in place of Math.round
fmtMinutesFloor(seconds) == Max(1, seconds \div SecondsPerMinute)

\* Math.max(1, Math.round(seconds / 60)), the number in `${mins} min`
fmtMinutes(seconds) ==
  Max(1, (2 * seconds + SecondsPerMinute) \div (2 * SecondsPerMinute))

\* arrival is a Date: Some(ms), or None for an Invalid Date
estimateStartAtISOFromArrival(arrival, durationSeconds) ==
  IF ~IsSome(durationSeconds) \/ Get(durationSeconds) = 0 THEN None
  ELSE IF ~IsSome(arrival) THEN None
  ELSE Some(ToISOString(Get(arrival) - Get(durationSeconds) * MsPerSecond))

-----------------------------------------------------------------------------
(* Itinerary text summarizer, routes.ts 72-165 *)

\* `if (x)` on an optional string: defined and not empty
Truthy(o) == IsSome(o) /\ Get(o) # ""

\* a ?? b
Coalesce(a, b) == IF IsSome(a) THEN a ELSE b

\* which is "departure" or "arrival"
timeTextFromTransitDetails(td, which) ==
  LET localized == IF which = "departure" THEN td.localizedDeparture ELSE td.localizedArrival
      iso == IF which = "departure" THEN td.departureTime ELSE td.arrivalTime
  IN IF Truthy(localized) THEN localized
     ELSE IF IsSome(iso) /\ TimeTextLength(Get(iso)) > 0 /\ IsSome(DateParse(Get(iso)))
          THEN Some(ToLocaleTimeString(Get(DateParse(Get(iso)))))
          ELSE None

RECURSIVE firstTransitDepartureISO(_)
firstTransitDepartureISO(steps) ==
  IF steps = <<>> THEN None
  ELSE LET s == Head(steps)
       IN IF s.travelMode # Some("TRANSIT") THEN firstTransitDepartureISO(Tail(steps))
          ELSE IF /\ IsSome(s.transitDetails)
                  /\ IsSome(Get(s.transitDetails).departureTime)
                  /\ TimeTextLength(Get(Get(s.transitDetails).departureTime)) > 0
               THEN Get(s.transitDetails).departureTime
               ELSE firstTransitDepartureISO(Tail(steps))

\* `Walk ${fmtMinutes(pendingWalkSeconds)}` with the optional ` to ${depStop}`
WalkLine(pendingWalkSeconds, depStop) ==
  <<"Walk", ToString(fmtMinutes(pendingWalkSeconds)), "min">>
    \o (IF Truthy(depStop) THEN <<"to", Get(depStop)>> ELSE <<>>)

\* lines 122-147: the line of a TRANSIT step that carries transitDetails
TransitLine(td) ==
  LET depStop == td.departureStop
      arrStop == td.arrivalStop
      depTime == timeTextFromTransitDetails(td, "departure")
      arrTime == timeTextFromTransitDetails(td, "arrival")
      vehicle == Coalesce(td.vehicleName, Coalesce(td.vehicleType, Some("Transit")))
      lineShort == Coalesce(td.lineNameShort, td.lineName)
      headsign == td.headsign
      parts == <<"Take", Get(vehicle)>>
                 \o (IF Truthy(lineShort) THEN <<Get(lineShort)>> ELSE <<>>)
                 \o <<"at">>
                 \o (IF Truthy(depTime) THEN <<Get(depTime)>> ELSE <<>>)
                 \o (IF Truthy(headsign) THEN <<"toward", Get(headsign)>> ELSE <<>>)
      fromTo == (IF Truthy(depStop) THEN <<"from", Get(depStop)>> ELSE <<>>)
                  \o (IF Truthy(arrStop) THEN <<"to", Get(arrStop)>> ELSE <<>>)
  IN parts \o fromTo
       \o (IF Truthy(arrTime) THEN <<"(arrive", "at", Get(arrTime) \o ")">> ELSE <<>>)

\* the loop of buildKeyInstructions (105-158) and the flush after it (160-162)
RECURSIVE KeyInstructionsLoop(_, _, _)
KeyInstructionsLoop(steps, out, pendingWalkSeconds) ==
  IF steps = <<>>
  THEN IF pendingWalkSeconds > 0 THEN Append(out, WalkLine(pendingWalkSeconds, None)) ELSE out
  ELSE LET s == Head(steps)
           rest == Tail(steps)
       IN IF s.travelMode = Some("WALK")
          THEN KeyInstructionsLoop(rest, out,
                 pendingWalkSeconds
                   + (IF IsSome(s.durationSeconds) THEN Get(s.durationSeconds) ELSE 0))
          ELSE IF s.travelMode = Some("TRANSIT") /\ IsSome(s.transitDetails)
          THEN LET td == Get(s.transitDetails)
                   flushed == IF pendingWalkSeconds > 0
                              THEN Append(out, WalkLine(pendingWalkSeconds, td.departureStop))
                              ELSE out
               IN KeyInstructionsLoop(rest, Append(flushed, TransitLine(td)), 0)
          ELSE LET flushed == IF pendingWalkSeconds > 0
                              THEN Append(out, WalkLine(pendingWalkSeconds, None))
                              ELSE out
               IN KeyInstructionsLoop(rest,
                    IF s.instruction # "" THEN Append(flushed, <<s.instruction>>) ELSE flushed,
                    0)

\* a faulty variant of buildKeyInstructions: the flush after the loop (160-162)
\* is missing, so walk steps after the last non-walk step leave no line
buildKeyInstructionsUnflushed(steps) ==
  LET others == {a \in 1..Len(steps) : steps[a].travelMode # Some("WALK")}
      last == IF others = {} THEN 0 ELSE CHOOSE a \in others : \A b \in others : b <= a
  IN KeyInstructionsLoop(SubSeq(steps, 1, last), <<>>, 0)

buildKeyInstructions(steps) == KeyInstructionsLoop(steps, <<>>, 0)

-----------------------------------------------------------------------------
(* Route normalizer, routes.ts 182-248 *)

\* lines 223-229: one raw step of the response as a RouteStep
ToRouteStep(s) ==
  [instruction |-> IF IsSome(s.instructions) THEN Get(s.instructions) ELSE "Step",
   durationSeconds |-> parseDurationSeconds(s.staticDuration),
   travelMode |-> s.travelMode,
   transitDetails |-> s.transitDetails]

\* lines 221-230: r.legs?.flatMap(l => (l.steps ?? []).map(...)) ?? []
RECURSIVE FlattenSteps(_)
FlattenSteps(legs) ==
  IF legs = <<>> THEN <<>>
  ELSE [k \in 1..Len(Head(legs)) |-> ToRouteStep(Head(legs)[k])] \o FlattenSteps(Tail(legs))

\* lines 233-235; request is [timeMode, time], time a valid Date
StartAtISO(request, steps, durationSeconds) ==
  Coalesce(firstTransitDepartureISO(steps),
           IF request.timeMode = "arriveBy"
           THEN estimateStartAtISOFromArrival(Some(request.time), durationSeconds)
           ELSE Some(ToISOString(request.time)))

\* lines 219-247: the callback of routes.map, idx counted from 0
NormalizeRoute(request, r, idx) ==
  LET steps == FlattenSteps(r.legs)
      durationSeconds == parseDurationSeconds(r.duration)
  IN [id |-> ToString(idx),
      durationSeconds |-> durationSeconds,
      distanceMeters |-> r.distanceMeters,
      steps |-> steps,
      keyInstructions |-> buildKeyInstructions(steps),
      startAtISO |-> StartAtISO(request, steps, durationSeconds)]

\* lines 218-247: data.routes ?? [] mapped in order
NormalizeRoutes(request, routes) ==
  [k \in 1..Len(routes) |-> NormalizeRoute(request, routes[k], k - 1)]

-----------------------------------------------------------------------------
(* Values the model draws its inputs from *)

\* instants, in epoch milliseconds: 20 and 30 minutes
Times == {1200000, 1800000}

\* characters of the duration texts given to parseDurationSeconds
DurationChars == {"0", "1", "9", "s", "-", "."}

RECURSIVE StringsUpTo(_)
StringsUpTo(n) ==
  IF n = 0 THEN {<<>>}
  ELSE LET shorter == StringsUpTo(n - 1)
       IN shorter \cup {Append(w, c) : w \in shorter, c \in DurationChars}

DurationTexts == {None} \cup {Some(w) : w \in StringsUpTo(MaxLen)}

\* transitDetails blobs of the provider
TdBare ==
  [localizedDeparture |-> None, localizedArrival |-> None,
   departureTime |-> None, arrivalTime |-> None,
   departureStop |-> None, arrivalStop |-> None,
   vehicleName |-> None, vehicleType |-> None,
   lineNameShort |-> None, lineName |-> None, headsign |-> None]

TdFull ==
  [TdBare EXCEPT !.localizedDeparture = Some("8:05 AM"), !.localizedArrival = Some("8:25 AM"),
                 !.departureTime = Some(ToISOString(1200000)),
                 !.arrivalTime = Some(ToISOString(1800000)),
                 !.departureStop = Some("Main St"), !.arrivalStop = Some("Elm St"),
                 !.vehicleName = Some("Bus"), !.vehicleType = Some("BUS"),
                 !.lineNameShort = Some("36"), !.lineName = Some("Route 36")]

TdIsoOnly ==
  [TdBare EXCEPT !.departureTime = Some(ToISOString(1800000)),
                 !.arrivalTime = Some(ToISOString(1800000)),
                 !.vehicleType = Some("SUBWAY"), !.lineName = Some("Red"),
                 !.headsign = Some("Downtown"), !.departureStop = Some("")]

TdBadTime ==
  [TdBare EXCEPT !.departureTime = Some(BadTime("soon")), !.arrivalTime = Some(BadTime("")),
                 !.arrivalStop = Some("Elm St")]

RawStep(mode, duration, text, td) ==
  [travelMode |-> mode, staticDuration |-> duration, instructions |-> text,
   transitDetails |-> td]

D0 == <<"0", "s">>
D20 == <<"2", "0", "s">>
D90 == <<"9", "0", "s">>
D150 == <<"1", "5", "0", "s">>
D300 == <<"3", "0", "0", "s">>
D420 == <<"4", "2", "0", "s">>
D1200 == <<"1", "2", "0", "0", "s">>

WalkStep(duration) == RawStep(Some("WALK"), duration, Some("Walk"), None)
TransitStep(td) == RawStep(Some("TRANSIT"), Some(D300), Some("Ride"), Some(td))

RawSteps ==
  {WalkStep(Some(D90)), WalkStep(Some(D150)), WalkStep(Some(D0)), WalkStep(None),
   WalkStep(Some(D20)),
   TransitStep(TdFull), TransitStep(TdBare), TransitStep(TdIsoOnly), TransitStep(TdBadTime),
   RawStep(Some("TRANSIT"), None, Some("Ride"), None),
   RawStep(Some("DRIVE"), None, Some("Head north"), None),
   RawStep(None, None, Some(""), None),
   RawStep(None, None, None, None)}

RECURSIVE StepSeqsUpTo(_)
StepSeqsUpTo(n) ==
  IF n = 0 THEN {<<>>}
  ELSE LET shorter == StepSeqsUpTo(n - 1)
       IN shorter \cup {Append(w, s) : w \in shorter, s \in RawSteps}

\* the steps of a route in one leg, or split over two legs
LegSplits(w) ==
  {<<w>>} \cup {<<SubSeq(w, 1, k), SubSeq(w, k + 1, Len(w))>> : k \in 1..(Len(w) - 1)}

RawRoute(duration, legs) == [duration |-> duration, distanceMeters |-> None, legs |-> legs]

RawRoutes ==
  {RawRoute(d, legs) : d \in {None, Some(D0), Some(D1200)},
                       legs \in UNION {LegSplits(w) : w \in StepSeqsUpTo(MaxSteps)}}
    \cup {RawRoute(Some(D300), <<>>)}

Requests == [timeMode : {"departAt", "arriveBy"}, time : Times]

-----------------------------------------------------------------------------
(* The provider transport and the place lookup, http.ts and places.ts *)

\* a call's outcome: it returned a value or it threw an Error with a message
Returned(v) == [kind |-> "value", message |-> "", value |-> Some(v)]
Threw(message) == [kind |-> "error", message |-> message, value |-> None]

\* res.ok of the fetch Response
Ok(res) == res.status \in 200..299

\* message of the SyntaxError res.json() rejects with
JsonParseMessage == "JSON Parse error"

\* a faulty variant of googleFetchJson: res.ok is not examined
googleFetchJsonUnchecked(res) ==
  IF IsSome(res.json) THEN Returned(Get(res.json)) ELSE Threw(JsonParseMessage)

\* http.ts 5-12; res is [status, text, json], text absent when res.text()
\* rejects and json absent when res.json() rejects
googleFetchJson(res) ==
  IF ~Ok(res)
  THEN Threw("Google API error " \o ToString(res.status) \o ": "
               \o (IF IsSome(res.text) THEN Get(res.text) ELSE ""))
  ELSE IF IsSome(res.json) THEN Returned(Get(res.json))
  ELSE Threw(JsonParseMessage)

\* JSON values of the fields latitude and longitude
JsonNumber(n) == [type |-> "number", num |-> n, str |-> ""]
JsonString(t) == [type |-> "string", num |-> 0, str |-> t]

\* typeof v === 'number' of an optional field
IsNumber(v) == IsSome(v) /\ Get(v).type = "number"

\* data.location?.latitude and data.location?.longitude
LocationField(data, field) ==
  IF ~IsSome(data.location) THEN None
  ELSE IF field = "latitude" THEN Get(data.location).latitude
  ELSE Get(data.location).longitude

\* a faulty variant of getPlaceDetails: a missing coordinate becomes 0
getPlaceDetailsDefaulted(placeId, res) ==
  LET r == googleFetchJson(res)
  IN IF r.kind = "error" THEN r
     ELSE LET data == Get(r.value)
              lat == LocationField(data, "latitude")
              lng == LocationField(data, "longitude")
          IN Returned([placeId |-> placeId,
                       name |-> IF IsSome(data.displayName) THEN Get(data.displayName)
                                ELSE "Selected place",
                       address |-> data.formattedAddress,
                       location |-> [lat |-> IF IsNumber(lat) THEN Get(lat).num ELSE 0,
                                     lng |-> IF IsNumber(lng) THEN Get(lng).num ELSE 0]])

\* places.ts 65-88 over the Response res of the fetch
getPlaceDetails(placeId, res) ==
  LET r == googleFetchJson(res)
  IN IF r.kind = "error" THEN r
     ELSE LET data == Get(r.value)
              lat == LocationField(data, "latitude")
              lng == LocationField(data, "longitude")
          IN IF ~IsNumber(lat) \/ ~IsNumber(lng)
             THEN Threw("Place details missing lat/lng")
             ELSE Returned([placeId |-> placeId,
                            name |-> IF IsSome(data.displayName) THEN Get(data.displayName)
                                     ELSE "Selected place",
                            address |-> data.formattedAddress,
                            location |-> [lat |-> Get(lat).num, lng |-> Get(lng).num]])

\* PlaceDetailsResponse bodies (places.ts 51-55)
PlaceData(location, displayName, formattedAddress) ==
  [location |-> location, displayName |-> displayName, formattedAddress |-> formattedAddress]

LatLngData(latitude, longitude) == [latitude |-> latitude, longitude |-> longitude]

DataCafe ==
  PlaceData(Some(LatLngData(Some(JsonNumber(1)), Some(JsonNumber(1)))),
            Some("Cafe"), Some("1 Main St"))
DataMuseum ==
  PlaceData(Some(LatLngData(Some(JsonNumber(2)), Some(JsonNumber(2)))), Some("Museum"), None)
DataNoLocation == PlaceData(None, Some("Cafe"), Some("1 Main St"))
DataNoLatitude ==
  PlaceData(Some(LatLngData(None, Some(JsonNumber(1)))), Some("Cafe"), Some("1 Main St"))
DataNoLongitude == PlaceData(Some(LatLngData(Some(JsonNumber(1)), None)), None, None)
DataTextLatitude ==
  PlaceData(Some(LatLngData(Some(JsonString("1")), Some(JsonNumber(1)))), Some("Cafe"), None)

PlaceBodies ==
  {DataCafe, DataMuseum, DataNoLocation, DataNoLatitude, DataNoLongitude, DataTextLatitude}

Response(status, text, json) == [status |-> status, text |-> text, json |-> json]

\* status codes of the provider's responses
Statuses == {200, 201, 299, 199, 300, 304, 400, 403, 404, 429, 500, 503}

\* body texts; absent when the body cannot be read
BodyTexts == {None, Some(""), Some("denied"), Some("quota exceeded")}

HttpResponses ==
  {Response(st, t, j) : st \in Statuses, t \in BodyTexts,
                        j \in {None} \cup {Some(d) : d \in PlaceBodies}}

-----------------------------------------------------------------------------
(* The planning screen, ResultsScreen.tsx 558-863 *)

\* PlaceDetails the place lookup returns (places.ts 82-87)
Place1 == [placeId |-> "p1", name |-> "Cafe", address |-> Some("1 Main St"),
           location |-> [lat |-> 1, lng |-> 1]]
Place2 == [placeId |-> "p2", name |-> "Museum", address |-> None,
           location |-> [lat |-> 2, lng |-> 2]]
Places == {Place1, Place2}

\* details.address ?? details.name
PlaceText(details) == IF IsSome(details.address) THEN Get(details.address) ELSE details.name

\* what the user types into a stop's text input
TypedTexts == {"qq"}

\* the longest string of decimal digits Number() turns into a finite number
\* whatever its digits (Number.MAX_VALUE has 309 digits)
FiniteDigits == 308

\* a text of 310 digits, which Number() turns into Infinity
OverlongDigits == [k \in 1..(FiniteDigits + 2) |-> "9"]

\* what the user types into the dwell input
DwellTexts == {<<>>, <<"-", "7">>, OverlongDigits}

\* dwellMinutes of a stop added by addStop or by the initial state
DefaultDwell == 5

StopDraft(id, text, place, arriveBy, dwellMinutes) ==
  [id |-> id, text |-> text, place |-> place, arriveBy |-> arriveBy,
   dwellMinutes |-> dwellMinutes]

\* stops[i], i counted from 0 as in the code
At(list, i) == list[i + 1]

Indices(list) == 0..(Len(list) - 1)

\* cur.map((x, i) => (i === idx ? f(x) : x)) with f given as the new element
ReplaceAt(list, idx, x) == [k \in 1..Len(list) |-> IF k = idx + 1 THEN x ELSE list[k]]

\* a faulty variant of canSearch: the stops' places are not examined
canSearchIgnoringPlaces ==
  /\ Len(stops) >= 2
  /\ \A k \in 1..(Len(stops) - 1) : IsSome(At(stops, k).arriveBy)
  /\ \A k \in 1..(Len(stops) - 2) : At(stops, k).dwellMinutes >= 0

\* lines 599-611
canSearch ==
  /\ Len(stops) >= 2
  /\ \A k \in Indices(stops) : IsSome(At(stops, k).place)
  /\ \A k \in 1..(Len(stops) - 1) : IsSome(At(stops, k).arriveBy)
  /\ \A k \in 1..(Len(stops) - 2) : At(stops, k).dwellMinutes >= 0

\* lines 575-576
activeText ==
  IF IsSome(activeStopIndex) /\ Get(activeStopIndex) \in Indices(stops)
  THEN At(stops, Get(activeStopIndex)).text
  ELSE ""

\* lines 578-587: the predictions offered under the active stop; the query runs
\* for a text of two characters or more, and every place is a candidate
suggestions ==
  IF ~IsSome(activeStopIndex) THEN {}
  ELSE IF Get(activeStopIndex) \in Indices(stops)
          /\ IsSome(At(stops, Get(activeStopIndex)).place) THEN {}
  ELSE IF Len(activeText) < 2 THEN {}
  ELSE {p.placeId : p \in Places}

\* the body the provider holds for a place
ProviderBody(placeId) == IF placeId = "p1" THEN DataCafe ELSE DataMuseum

\* what the provider may answer to the lookup of a place: its details, a body
\* without coordinates, a body whose latitude is text, or a refusal
LookupResponses(placeId) ==
  {Response(200, Some(""), Some(ProviderBody(placeId))),
   Response(200, Some(""), Some(DataNoLocation)),
   Response(200, Some(""), Some(DataTextLatitude)),
   Response(403, Some("denied"), None)}

\* an editing gesture on the planning screen
Gesture == /\ screen = "PlanTrip"
           /\ edits < MaxEdits
           /\ edits' = edits + 1

\* lines 701 and 707
SetStartTimeMode(mode) ==
  /\ Gesture
  /\ startTimeMode' = mode
  /\ UNCHANGED <<stops, customStartAt, activeDatePicker, activeStopIndex, lookups, nextId>>
  /\ UNCHANGED <<planVars, fn>>

\* lines 717-721, shown in custom mode only (715)
ToggleStartPicker ==
  /\ Gesture
  /\ startTimeMode = "custom"
  /\ activeDatePicker' =
       IF IsSome(activeDatePicker) /\ Get(activeDatePicker).kind = "start"
       THEN None
       ELSE Some([kind |-> "start", stopIndex |-> 0])
  /\ UNCHANGED <<stops, startTimeMode, customStartAt, activeStopIndex, lookups, nextId>>
  /\ UNCHANGED <<planVars, fn>>

\* lines 726-736
ChangeCustomStart(d) ==
  /\ Gesture
  /\ startTimeMode = "custom"
  /\ IsSome(activeDatePicker) /\ Get(activeDatePicker).kind = "start"
  /\ customStartAt' = d
  /\ UNCHANGED <<stops, startTimeMode, activeDatePicker, activeStopIndex, lookups, nextId>>
  /\ UNCHANGED <<planVars, fn>>

\* the picker of stop idx is on screen (789, 803)
StopPickerShown(idx) ==
  /\ idx \in 1..(Len(stops) - 1)
  /\ activeDatePicker = Some([kind |-> "stop", stopIndex |-> idx])

\* lines 737 and 817: the Done button of the picker that is on screen
DonePicker ==
  /\ Gesture
  /\ \/ /\ startTimeMode = "custom"
        /\ IsSome(activeDatePicker) /\ Get(activeDatePicker).kind = "start"
     \/ \E idx \in Indices(stops) : StopPickerShown(idx)
  /\ activeDatePicker' = None
  /\ UNCHANGED <<stops, startTimeMode, customStartAt, activeStopIndex, lookups, nextId>>
  /\ UNCHANGED <<planVars, fn>>

\* lines 792-799
ToggleStopPicker(idx) ==
  /\ Gesture
  /\ idx \in 1..(Len(stops) - 1)
  /\ activeDatePicker' =
       IF activeDatePicker = Some([kind |-> "stop", stopIndex |-> idx])
       THEN None
       ELSE Some([kind |-> "stop", stopIndex |-> idx])
  /\ UNCHANGED <<stops, startTimeMode, customStartAt, activeStopIndex, lookups, nextId>>
  /\ UNCHANGED <<planVars, fn>>

\* lines 805-816
ChangeArriveBy(idx, d) ==
  /\ Gesture
  /\ StopPickerShown(idx)
  /\ stops' = ReplaceAt(stops, idx, [At(stops, idx) EXCEPT !.arriveBy = Some(d)])
  /\ UNCHANGED <<startTimeMode, customStartAt, activeDatePicker, activeStopIndex, lookups, nextId>>
  /\ UNCHANGED <<planVars, fn>>

\* t.replace(/[^\d]/g, '')
OnlyDigits(chars) == SelectSeq(chars, LAMBDA c : c \in Digits)

\* Number(ds) of a string of decimal digits is finite; texts of FiniteDigits + 1
\* digits, where it depends on the digits, are not among the inputs
IsFiniteNumber(ds) == Len(ds) <= FiniteDigits

\* Number.isFinite(n) ? n : 0 for n = Number(ds), line 834
FiniteOrZero(ds) == IF IsFiniteNumber(ds) THEN NumberOfDigits(ds) ELSE 0

\* a faulty variant of ChangeDwell: the text is converted without the removal
\* of its non-digit characters, so that a leading minus sign gives a negative
ChangeDwellUnfiltered(idx, t) ==
  /\ Gesture
  /\ idx \in 1..(Len(stops) - 2)
  /\ stops' = ReplaceAt(stops, idx,
                [At(stops, idx) EXCEPT
                   !.dwellMinutes = IF t # <<>> /\ Head(t) = "-"
                                    THEN 0 - FiniteOrZero(OnlyDigits(t))
                                    ELSE FiniteOrZero(OnlyDigits(t))])
  /\ UNCHANGED <<startTimeMode, customStartAt, activeDatePicker, activeStopIndex, lookups, nextId>>
  /\ UNCHANGED <<planVars, fn>>

\* lines 826-839, shown for a stop that is neither the first nor the last
ChangeDwell(idx, t) ==
  /\ Gesture
  /\ idx \in 1..(Len(stops) - 2)
  /\ stops' = ReplaceAt(stops, idx,
                [At(stops, idx) EXCEPT !.dwellMinutes = FiniteOrZero(OnlyDigits(t))])
  /\ UNCHANGED <<startTimeMode, customStartAt, activeDatePicker, activeStopIndex, lookups, nextId>>
  /\ UNCHANGED <<planVars, fn>>

\* line 764
FocusStop(idx) ==
  /\ Gesture
  /\ idx \in Indices(stops)
  /\ activeStopIndex' = Some(idx)
  /\ UNCHANGED <<stops, startTimeMode, customStartAt, activeDatePicker, lookups, nextId>>
  /\ UNCHANGED <<planVars, fn>>

\* a faulty variant of ChangeText: the text is replaced and the place is kept
ChangeTextKeepingPlace(idx, t) ==
  /\ Gesture
  /\ idx \in Indices(stops)
  /\ stops' = ReplaceAt(stops, idx, [At(stops, idx) EXCEPT !.text = t])
  /\ activeStopIndex' = Some(idx)
  /\ UNCHANGED <<startTimeMode, customStartAt, activeDatePicker, lookups, nextId>>
  /\ UNCHANGED <<planVars, fn>>

\* lines 765-770
ChangeText(idx, t) ==
  /\ Gesture
  /\ idx \in Indices(stops)
  /\ stops' = ReplaceAt(stops, idx, [At(stops, idx) EXCEPT !.text = t, !.place = None])
  /\ activeStopIndex' = Some(idx)
  /\ UNCHANGED <<startTimeMode, customStartAt, activeDatePicker, lookups, nextId>>
  /\ UNCHANGED <<planVars, fn>>

\* lines 616-621; new Date() is any instant
addStop ==
  /\ Gesture
  /\ Len(stops) < MaxStops
  /\ \E now \in Times :
       stops' = Append(stops, StopDraft(nextId, "", None, Some(now), DefaultDwell))
  /\ nextId' = nextId + 1
  /\ UNCHANGED <<startTimeMode, customStartAt, activeDatePicker, activeStopIndex, lookups>>
  /\ UNCHANGED <<planVars, fn>>

\* a faulty variant of removeStop: any stop of any list can be removed
removeStopAny(index) ==
  /\ Gesture
  /\ index \in Indices(stops)
  /\ stops' = SubSeq(stops, 1, index) \o SubSeq(stops, index + 2, Len(stops))
  /\ activeStopIndex' =
       IF ~IsSome(activeStopIndex) THEN None
       ELSE IF Get(activeStopIndex) = index THEN None
       ELSE IF Get(activeStopIndex) > index THEN Some(Get(activeStopIndex) - 1)
       ELSE activeStopIndex
  /\ UNCHANGED <<startTimeMode, customStartAt, activeDatePicker, lookups, nextId>>
  /\ UNCHANGED <<planVars, fn>>

\* a faulty variant of removeStop: the active stop index is left as it is
removeStopKeepingActive(index) ==
  /\ Gesture
  /\ index \in 1..(Len(stops) - 1)
  /\ Len(stops) > 2
  /\ stops' = SubSeq(stops, 1, index) \o SubSeq(stops, index + 2, Len(stops))
  /\ UNCHANGED <<startTimeMode, customStartAt, activeDatePicker, activeStopIndex, lookups,
                 nextId>>
  /\ UNCHANGED <<planVars, fn>>

\* lines 623-635; the Remove button is shown for idx >= 1 and disabled for two stops
removeStop(index) ==
  /\ Gesture
  /\ index \in 1..(Len(stops) - 1)
  /\ Len(stops) > 2
  /\ stops' = IF Len(stops) <= 2 \/ index = 0 THEN stops
              ELSE SubSeq(stops, 1, index) \o SubSeq(stops, index + 2, Len(stops))
  /\ activeStopIndex' =
       IF ~IsSome(activeStopIndex) THEN None
       ELSE IF Get(activeStopIndex) = index THEN None
       ELSE IF Get(activeStopIndex) > index THEN Some(Get(activeStopIndex) - 1)
       ELSE activeStopIndex
  /\ UNCHANGED <<startTimeMode, customStartAt, activeDatePicker, lookups, nextId>>
  /\ UNCHANGED <<planVars, fn>>

\* lines 777-786 and 589-590: pressing a suggestion starts getPlaceDetails
\* for the stop index of the closure; pickedId records, for the properties, the
\* id of the stop the suggestion was shown under
pickSuggestionForStop(stopIndex, placeId) ==
  /\ Gesture
  /\ activeStopIndex = Some(stopIndex)
  /\ stopIndex \in Indices(stops)
  /\ placeId \in suggestions
  /\ lookups' = lookups \cup {[stopIndex |-> stopIndex, placeId |-> placeId,
                            pickedId |-> At(stops, stopIndex).id]}
  /\ UNCHANGED <<stops, startTimeMode, customStartAt, activeDatePicker, activeStopIndex, nextId>>
  /\ UNCHANGED <<planVars, fn>>

\* lines 590-596: getPlaceDetails returned over the Response res
PlaceDetailsResolved(lookup, res) ==
  /\ lookup \in lookups
  /\ getPlaceDetails(lookup.placeId, res).kind = "value"
  /\ lookups' = lookups \ {lookup}
  /\ LET details == Get(getPlaceDetails(lookup.placeId, res).value)
     IN stops' = [k \in 1..Len(stops) |->
                    IF k = lookup.stopIndex + 1
                    THEN [stops[k] EXCEPT !.place = Some(details), !.text = PlaceText(details)]
                    ELSE stops[k]]
  /\ activeStopIndex' = None
  /\ UNCHANGED <<startTimeMode, customStartAt, activeDatePicker, nextId, edits>>
  /\ UNCHANGED <<planVars, fn>>

\* places.ts 76-80 and http.ts 7-10: getPlaceDetails threw over the Response res;
\* the await at 590 rethrows and lines 591-596 are not reached
PlaceDetailsRejected(lookup, res) ==
  /\ lookup \in lookups
  /\ getPlaceDetails(lookup.placeId, res).kind = "error"
  /\ lookups' = lookups \ {lookup}
  /\ UNCHANGED <<stops, startTimeMode, customStartAt, activeDatePicker, activeStopIndex,
                 nextId, edits>>
  /\ UNCHANGED <<planVars, fn>>

-----------------------------------------------------------------------------
(* The leg planner: onSearch, ResultsScreen.tsx 637-692 *)

\* the onSearch closure while no computation is suspended
Idle == [pc |-> "idle", stops |-> <<>>, startTimeMode |-> "now", startAt |-> 0,
         i |-> 0, legs |-> <<>>, returned |-> <<>>, received |-> <<>>]

\* a faulty variant of LegRequest: origin and destination exchanged
LegRequestSwapped(captured, i) ==
  [leg |-> i,
   origin |-> Get(At(captured, i + 1).place).location,
   destination |-> Get(At(captured, i).place).location,
   timeMode |-> "arriveBy",
   time |-> Get(At(captured, i + 1).arriveBy)]

\* lines 645-655 and routes.ts 184-204: the request of leg i over the captured stops
LegRequest(captured, i) ==
  [leg |-> i,
   origin |-> Get(At(captured, i).place).location,
   destination |-> Get(At(captured, i + 1).place).location,
   timeMode |-> "arriveBy",
   time |-> Get(At(captured, i + 1).arriveBy)]

\* a faulty variant of KeepsStart: ms > minStartMs
KeepsStartStrict(r, minStartMs) ==
  LET ms == IF IsSome(r.startAtISO) /\ TimeTextLength(Get(r.startAtISO)) > 0
            THEN DateParse(Get(r.startAtISO))
            ELSE None
  IN IF IsSome(ms) THEN Get(ms) > minStartMs ELSE TRUE

\* lines 660-664
KeepsStart(r, minStartMs) ==
  LET ms == IF IsSome(r.startAtISO) /\ TimeTextLength(Get(r.startAtISO)) > 0
            THEN DateParse(Get(r.startAtISO))
            ELSE None
  IN IF IsSome(ms) THEN Get(ms) >= minStartMs ELSE TRUE

\* a faulty variant of FirstLegFilter: the kept options are numbered anew
FirstLegFilterRenumbered(i, routes, startAt) ==
  IF i = 0
  THEN LET Keep(r) == KeepsStart(r, startAt)
           kept == SelectSeq(routes, Keep)
       IN [j \in 1..Len(kept) |-> [kept[j] EXCEPT !.id = ToString(j - 1)]]
  ELSE routes

\* lines 659-665
FirstLegFilter(i, routes, startAt) ==
  IF i = 0
  THEN LET Keep(r) == KeepsStart(r, startAt) IN SelectSeq(routes, Keep)
  ELSE routes

\* a faulty variant of DwellAtFromStop: the dwell of the stop the leg leads to
DwellAtToStop(captured, i) == IF i = 0 THEN 0 ELSE At(captured, i + 1).dwellMinutes

\* line 648
DwellAtFromStop(captured, i) == IF i = 0 THEN 0 ELSE At(captured, i).dwellMinutes

\* a faulty variant of LegRecord: the leg ends at the stop it starts from
LegRecordFromTwice(captured, i, routes) ==
  [id |-> ToString(i),
   fromStopId |-> At(captured, i).id,
   toStopId |-> At(captured, i).id,
   arriveByISO |-> ToISOString(Get(At(captured, i + 1).arriveBy)),
   dwellMinutesAtFromStop |-> DwellAtFromStop(captured, i),
   routes |-> routes]

\* lines 667-674
LegRecord(captured, i, routes) ==
  [id |-> ToString(i),
   fromStopId |-> At(captured, i).id,
   toStopId |-> At(captured, i + 1).id,
   arriveByISO |-> ToISOString(Get(At(captured, i + 1).arriveBy)),
   dwellMinutesAtFromStop |-> DwellAtFromStop(captured, i),
   routes |-> routes]

\* a faulty variant of ResultsParams: the start of the plan is read from the
\* screen's state at the commit instead of the value resolved at line 643
ResultsParamsLateStart(r, legs) ==
  [startAt |-> [mode |-> startTimeMode, startAtISO |-> ToISOString(customStartAt)],
   stops |-> [k \in 1..Len(r.stops) |->
                [id |-> r.stops[k].id,
                 place |-> Get(r.stops[k].place),
                 arriveByISO |-> IF k = 1 THEN None
                                 ELSE Some(ToISOString(Get(r.stops[k].arriveBy))),
                 dwellMinutes |-> IF k = 1 THEN None ELSE Some(r.stops[k].dwellMinutes)]],
   legs |-> legs]

\* a faulty variant of ResultsParams: the stops are read from the screen's
\* state at the commit, when that list is complete, instead of the closure's
ResultsParamsLiveStops(r, legs) ==
  LET live == IF canSearch THEN stops ELSE r.stops
  IN [startAt |-> [mode |-> r.startTimeMode, startAtISO |-> ToISOString(r.startAt)],
      stops |-> [k \in 1..Len(live) |->
                   [id |-> live[k].id,
                    place |-> Get(live[k].place),
                    arriveByISO |-> IF k = 1 THEN None
                                    ELSE Some(ToISOString(Get(live[k].arriveBy))),
                    dwellMinutes |-> IF k = 1 THEN None ELSE Some(live[k].dwellMinutes)]],
      legs |-> legs]

\* lines 677-686
ResultsParams(r, legs) ==
  [startAt |-> [mode |-> r.startTimeMode, startAtISO |-> ToISOString(r.startAt)],
   stops |-> [k \in 1..Len(r.stops) |->
                [id |-> r.stops[k].id,
                 place |-> Get(r.stops[k].place),
                 arriveByISO |-> IF k = 1 THEN None
                                 ELSE Some(ToISOString(Get(r.stops[k].arriveBy))),
                 dwellMinutes |-> IF k = 1 THEN None ELSE Some(r.stops[k].dwellMinutes)]],
   legs |-> legs]

\* responses of the routing provider
RouteWalk == RawRoute(Some(D300), <<<<WalkStep(Some(D300))>>>>)
RouteBus == RawRoute(Some(D1200), <<<<WalkStep(Some(D90)), TransitStep(TdFull)>>>>)
RouteUnknown == RawRoute(None, <<>>)
RouteBadTime == RawRoute(Some(D420), <<<<TransitStep(TdBadTime)>>>>)

Responses == {<<>>, <<RouteWalk, RouteBus>>, <<RouteBadTime, RouteUnknown>>}

\* messages of the errors computeRoutes rejects with (http.ts 9, fetch)
Failures == {"Google API error 403: denied", "Network request failed"}

\* a faulty variant of CaughtMessage: the error's own message is dropped
CaughtMessageGeneric(message) == "Failed to compute routes"

\* line 688: e?.message ?? 'Failed to compute routes'
CaughtMessage(message) == IF IsSome(message) THEN Get(message) ELSE "Failed to compute routes"

\* stops[i].place!.location and stops[i + 1].arriveBy!.toISOString() do not throw
Buildable(captured, i) ==
  /\ IsSome(At(captured, i).place)
  /\ IsSome(At(captured, i + 1).place)
  /\ IsSome(At(captured, i + 1).arriveBy)

\* message of the TypeError a null place or arriveBy raises inside the try block
NullMessage == "Cannot read properties of null"

\* a faulty variant of onSearch: the requests of all legs are issued together
onSearchAllAtOnce ==
  /\ ~searching
  /\ screen = "PlanTrip"
  /\ canSearch
  /\ started < MaxSearches
  /\ started' = started + 1
  /\ searching' = TRUE
  /\ error' = None
  /\ \E now \in Times :
       run' = [pc |-> "await", stops |-> stops, startTimeMode |-> startTimeMode,
               startAt |-> IF startTimeMode = "now" THEN now ELSE customStartAt,
               i |-> 0, legs |-> <<>>, returned |-> <<>>, received |-> <<>>]
  /\ inflight' = {LegRequest(stops, i) : i \in 0..(Len(stops) - 2)}
  /\ issued' = [k \in 1..(Len(stops) - 1) |-> LegRequest(stops, k - 1)]
  /\ UNCHANGED <<screen, params, chosen, rejections, normalized, responses, uiVars, fn>>

\* a faulty variant of onSearch: the Search button stays enabled while searching
onSearchWhileSearching ==
  /\ screen = "PlanTrip"
  /\ canSearch
  /\ started <= MaxSearches
  /\ started' = started + 1
  /\ searching' = TRUE
  /\ error' = None
  /\ \E now \in Times :
       run' = [pc |-> "await", stops |-> stops, startTimeMode |-> startTimeMode,
               startAt |-> IF startTimeMode = "now" THEN now ELSE customStartAt,
               i |-> 0, legs |-> <<>>, returned |-> <<>>, received |-> <<>>]
  /\ inflight' = {LegRequest(stops, 0)}
  /\ issued' = <<LegRequest(stops, 0)>>
  /\ UNCHANGED <<screen, params, chosen, rejections, normalized, responses, uiVars, fn>>

\* a faulty variant of onSearch: setError(null) at line 640 is missing
onSearchKeepingError ==
  /\ ~searching
  /\ screen = "PlanTrip"
  /\ IF ~canSearch
     THEN UNCHANGED vars
     ELSE /\ started < MaxSearches
          /\ started' = started + 1
          /\ searching' = TRUE
          /\ \E now \in Times :
               run' = [pc |-> "await", stops |-> stops,
                       startTimeMode |-> startTimeMode,
                       startAt |-> IF startTimeMode = "now" THEN now ELSE customStartAt,
                       i |-> 0, legs |-> <<>>, returned |-> <<>>, received |-> <<>>]
          /\ inflight' = {LegRequest(stops, 0)}
          /\ issued' = <<LegRequest(stops, 0)>>
          /\ UNCHANGED <<error, screen, params, chosen, rejections, normalized, responses,
                         uiVars, fn>>

\* lines 637-655 and 687-691: the Search button (854-860) is disabled while
\* searching; the handler returns at once when the plan is not ready, and
\* otherwise runs up to the await of the first computeRoutes
onSearch ==
  /\ ~searching
  /\ screen = "PlanTrip"
  /\ IF ~canSearch
     THEN UNCHANGED vars
     ELSE /\ started < MaxSearches
          /\ started' = started + 1
          /\ IF Buildable(stops, 0)
             THEN /\ searching' = TRUE
                  /\ error' = None
                  /\ \E now \in Times :
                       run' = [pc |-> "await", stops |-> stops,
                               startTimeMode |-> startTimeMode,
                               startAt |-> IF startTimeMode = "now" THEN now
                                           ELSE customStartAt,
                               i |-> 0, legs |-> <<>>, returned |-> <<>>, received |-> <<>>]
                  /\ inflight' = {LegRequest(stops, 0)}
                  /\ issued' = <<LegRequest(stops, 0)>>
             ELSE /\ searching' = FALSE
                  /\ error' = Some(CaughtMessage(Some(NullMessage)))
                  /\ issued' = <<>>
                  /\ UNCHANGED <<run, inflight>>
          /\ UNCHANGED <<screen, params, chosen, rejections, normalized, responses,
                         uiVars, fn>>

\* lines 650-686 and 689-691: the awaited computeRoutes resolved with the
\* provider's routes; the loop body finishes and either the next request is
\* issued or the plan is committed
RoutesResolved(data) ==
  /\ run.pc = "await"
  /\ inflight = {LegRequest(run.stops, run.i)}
  /\ LET request == LegRequest(run.stops, run.i)
         returned == NormalizeRoutes(request, data)
         routes == FirstLegFilter(run.i, returned, run.startAt)
         legs == Append(run.legs, LegRecord(run.stops, run.i, routes))
     IN IF run.i + 1 < Len(run.stops) - 1
        THEN /\ run' = [run EXCEPT !.i = run.i + 1, !.legs = legs,
                                   !.returned = Append(run.returned, returned),
                                   !.received = Append(run.received, data)]
             /\ inflight' = {LegRequest(run.stops, run.i + 1)}
             /\ issued' = Append(issued, LegRequest(run.stops, run.i + 1))
             /\ UNCHANGED <<searching, error, screen, params, chosen, normalized,
                            responses>>
        ELSE /\ run' = Idle
             /\ inflight' = {}
             /\ screen' = "Results"
             /\ params' = Some(ResultsParams(run, legs))
             /\ normalized' = Append(run.returned, returned)
             /\ responses' = Append(run.received, data)
             /\ chosen' = [k \in 1..Len(legs) |-> None]
             /\ searching' = FALSE
             /\ UNCHANGED <<error, issued>>
  /\ UNCHANGED <<started, rejections, uiVars, fn>>

\* a faulty variant of RoutesRejected: the flag is cleared on success only
RoutesRejectedFlagKept(message) ==
  /\ run.pc = "await"
  /\ inflight = {LegRequest(run.stops, run.i)}
  /\ inflight' = {}
  /\ run' = Idle
  /\ error' = Some(CaughtMessage(Some(message)))
  /\ rejections' = Append(rejections, message)
  /\ UNCHANGED <<searching, issued, screen, params, chosen, normalized, responses, started,
                 uiVars, fn>>

\* lines 687-691: the awaited computeRoutes rejected
RoutesRejected(message) ==
  /\ run.pc = "await"
  /\ inflight = {LegRequest(run.stops, run.i)}
  /\ inflight' = {}
  /\ run' = Idle
  /\ error' = Some(CaughtMessage(Some(message)))
  /\ searching' = FALSE
  /\ rejections' = Append(rejections, message)
  /\ UNCHANGED <<issued, screen, params, chosen, normalized, responses, started,
                 uiVars, fn>>

\* the back button of the Results screen (RootNavigator.tsx 12-15); the screen
\* is unmounted and its selection state is gone
GoBack ==
  /\ screen = "Results"
  /\ screen' = "PlanTrip"
  /\ chosen' = <<>>
  /\ UNCHANGED <<searching, error, run, inflight, issued, params, started, rejections,
                 normalized, responses, uiVars, fn>>

\* the user leaves the planning screen while onSearch is suspended at an await
\* (the app goes to the background; the component stays mounted)
LeaveScreen ==
  /\ screen = "PlanTrip"
  /\ searching
  /\ screen' = "Away"
  /\ UNCHANGED <<searching, error, run, inflight, issued, params, chosen, started,
                 rejections, normalized, responses, uiVars, fn>>

\* the user comes back to the planning screen
ReturnToScreen ==
  /\ screen = "Away"
  /\ screen' = "PlanTrip"
  /\ UNCHANGED <<searching, error, run, inflight, issued, params, chosen, started,
                 rejections, normalized, responses, uiVars, fn>>

-----------------------------------------------------------------------------
(* The Results screen: pinning an option of a leg *)

\* the user pins option id of leg k (k counted from 1 in params.legs)
ChooseOption(k, id) ==
  /\ screen = "Results"
  /\ IsSome(params)
  /\ k \in 1..Len(Get(params).legs)
  /\ \E j \in 1..Len(Get(params).legs[k].routes) : Get(params).legs[k].routes[j].id = id
  /\ chosen[k] # Some(id)
  /\ chosen' = [chosen EXCEPT ![k] = Some(id)]
  /\ UNCHANGED <<searching, error, run, inflight, issued, screen, params, started,
                 rejections, normalized, responses, uiVars, fn>>

\* the explicit "change" action: all alternatives of leg k are shown again
ChangeOption(k) ==
  /\ screen = "Results"
  /\ k \in DOMAIN chosen
  /\ IsSome(chosen[k])
  /\ chosen' = [chosen EXCEPT ![k] = None]
  /\ UNCHANGED <<searching, error, run, inflight, issued, screen, params, started,
                 rejections, normalized, responses, uiVars, fn>>

-----------------------------------------------------------------------------
(* The feasibility checker over the legs of a committed plan *)

\* the pinned option of the leg when one is pinned, else the first option
RepresentativeOption(leg, pin) ==
  IF IsSome(pin) /\ \E j \in 1..Len(leg.routes) : leg.routes[j].id = Get(pin)
  THEN Some(leg.routes[CHOOSE j \in 1..Len(leg.routes) : leg.routes[j].id = Get(pin)])
  ELSE IF leg.routes # <<>> THEN Some(leg.routes[1])
  ELSE None

\* arrival instant of the previous leg plus the dwell of the current leg
neededDepartureMs(previousLeg, currentLeg) ==
  LET arrival == DateParse(previousLeg.arriveByISO)
  IN IF IsSome(arrival)
     THEN Some(Get(arrival) + currentLeg.dwellMinutesAtFromStop * MsPerMinute)
     ELSE None

\* arrival instant of the current leg minus the duration of its representative
estimatedDepartureMs(currentLeg, representative) ==
  LET arrival == DateParse(currentLeg.arriveByISO)
  IN IF IsSome(arrival) /\ IsSome(representative)
        /\ IsSome(Get(representative).durationSeconds)
     THEN Some(Get(arrival) - Get(Get(representative).durationSeconds) * MsPerSecond)
     ELSE None

\* the warnings of a plan under the pinned options, legs counted from 1
FeasibilityWarnings(plan, pins) ==
  {[leg |-> k,
    estimatedDepartureMs |->
      Get(estimatedDepartureMs(plan.legs[k], RepresentativeOption(plan.legs[k], pins[k]))),
    previousArrivalMs |-> Get(DateParse(plan.legs[k - 1].arriveByISO)),
    dwellMinutes |-> plan.legs[k].dwellMinutesAtFromStop] :
     k \in {j \in 2..Len(plan.legs) :
              LET needed == neededDepartureMs(plan.legs[j - 1], plan.legs[j])
                  estimated == estimatedDepartureMs(plan.legs[j],
                                 RepresentativeOption(plan.legs[j], pins[j]))
              IN IsSome(needed) /\ IsSome(estimated) /\ Get(estimated) < Get(needed)}}

-----------------------------------------------------------------------------
(* Specification of the planner *)

NoCall == [op |-> "none"]

\* lines 569-572: the stop list of a freshly mounted screen
InitialStops(now) ==
  <<StopDraft(1, "", None, None, 0), StopDraft(2, "", None, Some(now), DefaultDwell)>>

\* the places the model's user enters, by position
PlaceAt(k) == IF k % 2 = 1 THEN Place1 ELSE Place2

\* text and place of stop k after the user has worked on it: typed and
\* unresolved, or resolved by a picked suggestion
EnteredPlaces(k) ==
  {[text |-> "qq", place |-> None],
   [text |-> PlaceText(PlaceAt(k)), place |-> Some(PlaceAt(k))]}

FirstDrafts == {StopDraft(1, e.text, e.place, None, 0) : e \in EnteredPlaces(1)}

MiddleDrafts(k) ==
  {StopDraft(k, e.text, e.place, Some(t), dwell) :
     e \in EnteredPlaces(k), t \in Times, dwell \in {0, DefaultDwell}}

LastDrafts(k) ==
  {StopDraft(k, e.text, e.place, Some(t), DefaultDwell) : e \in EnteredPlaces(k), t \in Times}

\* the first n stops of an entered list that has more than n stops
RECURSIVE EnteredPrefixes(_)
EnteredPrefixes(n) ==
  IF n = 1 THEN {<<d>> : d \in FirstDrafts}
  ELSE {Append(list, d) : list \in EnteredPrefixes(n - 1), d \in MiddleDrafts(n)}

\* stop lists the editing handlers leave behind
EnteredStopLists ==
  UNION {{Append(list, d) : list \in EnteredPrefixes(n - 1), d \in LastDrafts(n)}
         : n \in 2..MaxStops}

Init ==
  /\ stops \in {InitialStops(now) : now \in Times} \cup EnteredStopLists
  /\ nextId = Len(stops) + 1
  /\ startTimeMode \in {"now", "custom"}
  /\ customStartAt \in Times
  /\ startTimeMode = "now" => \A t \in Times : customStartAt <= t
  /\ activeDatePicker = None
  /\ activeStopIndex = None
  /\ lookups = {}
  /\ searching = FALSE
  /\ error = None
  /\ run = Idle
  /\ inflight = {}
  /\ issued = <<>>
  /\ screen = "PlanTrip"
  /\ params = None
  /\ chosen = <<>>
  /\ rejections = <<>>
  /\ normalized = <<>>
  /\ responses = <<>>
  /\ started = 0
  /\ edits = 0
  /\ fn = NoCall

Next ==
  \/ \E mode \in {"now", "custom"} : SetStartTimeMode(mode)
  \/ ToggleStartPicker
  \/ \E d \in Times : ChangeCustomStart(d)
  \/ DonePicker
  \/ \E idx \in 0..(MaxStops - 1) : ToggleStopPicker(idx)
  \/ \E idx \in 0..(MaxStops - 1), d \in Times : ChangeArriveBy(idx, d)
  \/ \E idx \in 0..(MaxStops - 1), t \in DwellTexts : ChangeDwell(idx, t)
  \/ \E idx \in 0..(MaxStops - 1) : FocusStop(idx)
  \/ \E idx \in 0..(MaxStops - 1), t \in TypedTexts : ChangeText(idx, t)
  \/ addStop
  \/ \E idx \in 0..(MaxStops - 1) : removeStop(idx)
  \/ \E idx \in 0..(MaxStops - 1), p \in Places : pickSuggestionForStop(idx, p.placeId)
  \/ \E l \in lookups : \E res \in LookupResponses(l.placeId) : PlaceDetailsResolved(l, res)
  \/ \E l \in lookups : \E res \in LookupResponses(l.placeId) : PlaceDetailsRejected(l, res)
  \/ onSearch
  \/ \E data \in Responses : RoutesResolved(data)
  \/ \E message \in Failures : RoutesRejected(message)
  \/ GoBack
  \/ LeaveScreen
  \/ ReturnToScreen
  \/ \E k \in 1..(MaxStops - 1), id \in {"0", "1"} : ChooseOption(k, id)
  \/ \E k \in 1..(MaxStops - 1) : ChangeOption(k)

Spec == Init /\ [][Next]_vars

\* the provider answers the call in flight: computeRoutes resolves or rejects
ProviderResponds ==
  \/ \E data \in Responses : RoutesResolved(data)
  \/ \E message \in Failures : RoutesRejected(message)

\* the planner with a provider that answers every call
SpecResponsive == Spec /\ WF_vars(ProviderResponds)

-----------------------------------------------------------------------------
(* Specification of a search after a failed one: the planning screen shows    *)
(* the error of an earlier computation whose provider call failed, over the   *)
(* ready stop list that computation was started from; the history variables   *)
(* and the counters start from this state                                     *)

RetryInit ==
  /\ stops \in EnteredStopLists
  /\ canSearch
  /\ nextId = Len(stops) + 1
  /\ startTimeMode = "custom"
  /\ customStartAt = CHOOSE t \in Times : \A u \in Times : t <= u
  /\ activeDatePicker = None
  /\ activeStopIndex = None
  /\ lookups = {}
  /\ searching = FALSE
  /\ error \in {Some(CaughtMessage(Some(message))) : message \in Failures}
  /\ run = Idle
  /\ inflight = {}
  /\ issued = <<>>
  /\ screen = "PlanTrip"
  /\ params = None
  /\ chosen = <<>>
  /\ rejections = <<>>
  /\ normalized = <<>>
  /\ responses = <<>>
  /\ started = 0
  /\ edits = 0
  /\ fn = NoCall

SpecRetry == RetryInit /\ [][Next]_vars

-----------------------------------------------------------------------------
(* Specification of the duration/time codec: one call of parseDurationSeconds *)
(* on a duration text, then one of estimateStartAtISOFromArrival on its      *)
(* result and an arrival Date                                                *)

\* the rest of the program stands still while a function is studied
Mounted ==
  /\ stops = InitialStops(CHOOSE t \in Times : \A u \in Times : t <= u)
  /\ nextId = Len(stops) + 1
  /\ startTimeMode = "now"
  /\ customStartAt = CHOOSE t \in Times : \A u \in Times : t <= u
  /\ activeDatePicker = None
  /\ activeStopIndex = Some(0)
  /\ lookups = {}
  /\ searching = FALSE
  /\ error = None
  /\ run = Idle
  /\ inflight = {}
  /\ issued = <<>>
  /\ screen = "PlanTrip"
  /\ params = None
  /\ chosen = <<>>
  /\ rejections = <<>>
  /\ normalized = <<>>
  /\ responses = <<>>
  /\ started = 0
  /\ edits = 0

\* arrival Dates: the instants, and the Invalid Date
ArrivalDates == {None} \cup {Some(t) : t \in Times}

CodecInit ==
  /\ Mounted
  /\ fn \in {[op |-> "codec", pc |-> "parse", duration |-> d, arrival |-> a,
              seconds |-> None, estimate |-> None] :
               d \in DurationTexts, a \in ArrivalDates}

CallParseDurationSeconds ==
  /\ fn.op = "codec" /\ fn.pc = "parse"
  /\ fn' = [fn EXCEPT !.pc = "estimate", !.seconds = parseDurationSeconds(fn.duration)]
  /\ UNCHANGED <<uiVars, planVars>>

CallEstimateStartAtISOFromArrival ==
  /\ fn.op = "codec" /\ fn.pc = "estimate"
  /\ fn' = [fn EXCEPT !.pc = "done",
                      !.estimate = estimateStartAtISOFromArrival(fn.arrival, fn.seconds)]
  /\ UNCHANGED <<uiVars, planVars>>

CodecNext == CallParseDurationSeconds \/ CallEstimateStartAtISOFromArrival

SpecCodec == CodecInit /\ [][CodecNext]_vars

-----------------------------------------------------------------------------
(* Specification of the route normalizer: one call of computeRoutes whose    *)
(* request the provider answers with one route                               *)

NormalizerInit ==
  /\ Mounted
  /\ fn \in {[op |-> "computeRoutes", pc |-> "await", request |-> q, routes |-> data,
              result |-> <<>>] :
               q \in Requests, data \in {<<>>} \cup {<<r>> : r \in RawRoutes}}

\* routes.ts 218-247: the response has arrived
CallComputeRoutes ==
  /\ fn.op = "computeRoutes" /\ fn.pc = "await"
  /\ fn' = [fn EXCEPT !.pc = "done", !.result = NormalizeRoutes(fn.request, fn.routes)]
  /\ UNCHANGED <<uiVars, planVars>>

NormalizerNext == CallComputeRoutes

SpecNormalizer == NormalizerInit /\ [][NormalizerNext]_vars

-----------------------------------------------------------------------------
(* Specification of the transport: the user picks a suggestion for a stop,    *)
(* googleFetchJson and getPlaceDetails run over the Response of the provider, *)
(* and pickSuggestionForStop continues with the outcome                       *)

\* two-stop lists with the active stop typed and not yet resolved
HttpInit ==
  /\ stops \in {list \in EnteredStopLists : Len(list) = 2}
  /\ nextId = Len(stops) + 1
  /\ startTimeMode = "now"
  /\ customStartAt = CHOOSE t \in Times : \A u \in Times : t <= u
  /\ activeDatePicker = None
  /\ activeStopIndex \in {Some(i) : i \in {j \in Indices(stops) : ~IsSome(At(stops, j).place)}}
  /\ lookups = {}
  /\ searching = FALSE
  /\ error = None
  /\ run = Idle
  /\ inflight = {}
  /\ issued = <<>>
  /\ screen = "PlanTrip"
  /\ params = None
  /\ chosen = <<>>
  /\ rejections = <<>>
  /\ normalized = <<>>
  /\ responses = <<>>
  /\ started = 0
  /\ edits = 0
  /\ fn \in {[op |-> "googleFetchJson", pc |-> "await", placeId |-> p.placeId, res |-> res,
              outcome |-> Threw(""), details |-> Threw("")] :
             p \in Places, res \in HttpResponses}

\* http.ts 5-12: the fetch has resolved with res
CallGoogleFetchJson ==
  /\ fn.op = "googleFetchJson" /\ fn.pc = "await"
  /\ lookups # {}
  /\ fn' = [fn EXCEPT !.pc = "fetched", !.outcome = googleFetchJson(fn.res)]
  /\ UNCHANGED <<uiVars, planVars>>

\* places.ts 65-88 for the picked place over the same Response
CallGetPlaceDetails ==
  /\ fn.op = "googleFetchJson" /\ fn.pc = "fetched"
  /\ fn' = [fn EXCEPT !.pc = "done", !.details = getPlaceDetails(fn.placeId, fn.res)]
  /\ UNCHANGED <<uiVars, planVars>>

\* ResultsScreen.tsx 589-590: the user picks the suggestion of the place
HttpPick == \E idx \in 0..(MaxStops - 1) : pickSuggestionForStop(idx, fn.placeId)

\* ResultsScreen.tsx 590-596: the awaited lookup settles with the outcome
HttpSettle ==
  /\ fn.op = "googleFetchJson" /\ fn.pc = "done"
  /\ \E l \in lookups : \/ PlaceDetailsResolved(l, fn.res)
                         \/ PlaceDetailsRejected(l, fn.res)

HttpNext == HttpPick \/ CallGoogleFetchJson \/ CallGetPlaceDetails \/ HttpSettle

SpecHttp == HttpInit /\ [][HttpNext]_vars

-----------------------------------------------------------------------------
(* Specification of the editing of the stop list: the gestures of the         *)
(* planning screen and the place lookups they start, with no search pressed   *)

\* the active stop of a screen whose stops are list: the one typed into last,
\* or none after a picked suggestion was applied
ActiveAfterEntry(list) ==
  {None} \cup {Some(i) : i \in {j \in Indices(list) : /\ ~IsSome(At(list, j).place)
                                                      /\ At(list, j).text # ""}}

EditingInit ==
  /\ \/ /\ stops \in {InitialStops(now) : now \in Times}
        /\ activeStopIndex = Some(0)
     \/ /\ stops \in EnteredStopLists
        /\ activeStopIndex \in ActiveAfterEntry(stops)
  /\ nextId = Len(stops) + 1
  /\ startTimeMode \in {"now", "custom"}
  /\ customStartAt = CHOOSE t \in Times : \A u \in Times : t <= u
  /\ activeDatePicker = None
  /\ lookups = {}
  /\ searching = FALSE
  /\ error = None
  /\ run = Idle
  /\ inflight = {}
  /\ issued = <<>>
  /\ screen = "PlanTrip"
  /\ params = None
  /\ chosen = <<>>
  /\ rejections = <<>>
  /\ normalized = <<>>
  /\ responses = <<>>
  /\ started = 0
  /\ edits = 0
  /\ fn = NoCall

EditingNext ==
  \/ \E mode \in {"now", "custom"} : SetStartTimeMode(mode)
  \/ ToggleStartPicker
  \/ \E d \in Times : ChangeCustomStart(d)
  \/ DonePicker
  \/ \E idx \in 0..(MaxStops - 1) : ToggleStopPicker(idx)
  \/ \E idx \in 0..(MaxStops - 1), d \in Times : ChangeArriveBy(idx, d)
  \/ \E idx \in 0..(MaxStops - 1), t \in DwellTexts : ChangeDwell(idx, t)
  \/ \E idx \in 0..(MaxStops - 1) : FocusStop(idx)
  \/ \E idx \in 0..(MaxStops - 1), t \in TypedTexts : ChangeText(idx, t)
  \/ addStop
  \/ \E idx \in 0..(MaxStops - 1) : removeStop(idx)
  \/ \E idx \in 0..(MaxStops - 1), p \in Places : pickSuggestionForStop(idx, p.placeId)
  \/ \E l \in lookups : \E res \in LookupResponses(l.placeId) : PlaceDetailsResolved(l, res)
  \/ \E l \in lookups : \E res \in LookupResponses(l.placeId) : PlaceDetailsRejected(l, res)

SpecEditing == EditingInit /\ [][EditingNext]_vars

-----------------------------------------------------------------------------
(* Properties of the duration/time codec (SpecCodec) *)

RECURSIVE Pow10(_)
Pow10(n) == IF n = 0 THEN 1 ELSE 10 * Pow10(n - 1)

\* the number a string of decimal digits denotes
RECURSIVE DecimalValue(_)
DecimalValue(ds) ==
  IF ds = <<>> THEN 0
  ELSE DigitValue(Head(ds)) * Pow10(Len(ds) - 1) + DecimalValue(Tail(ds))

\* one or more decimal digits followed by a single final "s"
IsDigitsThenS(chars) ==
  /\ Len(chars) >= 2
  /\ chars[Len(chars)] = "s"
  /\ \A k \in 1..(Len(chars) - 1) : chars[k] \in Digits

CodecParsed == fn.op = "codec" /\ fn.pc # "parse"
CodecDone == fn.op = "codec" /\ fn.pc = "done"

\* C10: parseDurationSeconds returns the number the digits denote for every
\* text made of one or more decimal digits and a final "s", and absent for every
\* other text and for an absent input
C10_ParseDurationExact ==
  CodecParsed =>
    fn.seconds = IF IsSome(fn.duration) /\ IsDigitsThenS(Get(fn.duration))
                 THEN Some(DecimalValue(SubSeq(Get(fn.duration), 1,
                                               Len(Get(fn.duration)) - 1)))
                 ELSE None

\* a text with a sign was rejected and a text with a leading zero was read
C10_Witness ==
  /\ CodecParsed
  /\ \/ fn.duration = Some(<<"-", "1", "s">>) /\ fn.seconds = None
     \/ fn.duration = Some(<<"0", "9", "s">>) /\ fn.seconds = Some(9)

\* C8: for a valid arrival and a present duration (zero included) the estimate
\* is present and arrival - estimate = duration * 1000 ms; the estimate is
\* absent when the duration is absent or the arrival is not a valid instant
C8_EstimateExact ==
  CodecDone =>
    IF IsSome(fn.seconds) /\ IsSome(fn.arrival)
    THEN /\ IsSome(fn.estimate)
         /\ IsSome(DateParse(Get(fn.estimate)))
         /\ Get(fn.arrival) - Get(DateParse(Get(fn.estimate))) = Get(fn.seconds) * 1000
    ELSE fn.estimate = None

-----------------------------------------------------------------------------
(* Properties of the route normalizer (SpecNormalizer) *)

NormalizerDone == fn.op = "computeRoutes" /\ fn.pc = "done"

\* C7: every normalized route with a step has a key instruction
C7_KeyInstructionsNonEmpty ==
  NormalizerDone =>
    \A k \in 1..Len(fn.result) :
      Len(fn.result[k].steps) > 0 => Len(fn.result[k].keyInstructions) > 0

\* the departure timestamp of the first transit-tagged step, when it has one
DepartureOfFirstTransitStep(steps) ==
  LET transit == {j \in 1..Len(steps) : steps[j].travelMode = Some("TRANSIT")}
  IN IF transit = {} THEN None
     ELSE LET first == CHOOSE j \in transit : \A i \in transit : j <= i
              td == steps[first].transitDetails
          IN IF IsSome(td) /\ IsSome(Get(td).departureTime)
                /\ TimeTextLength(Get(Get(td).departureTime)) > 0
             THEN Get(td).departureTime
             ELSE None

\* C9: startAtISO is the departure timestamp of the first transit-tagged step
\* if present; otherwise, for an arrive-by request, the departure estimate from
\* the reference time and the total duration; otherwise, for a depart-at
\* request, the reference timestamp
C9_StartAtPriority ==
  NormalizerDone =>
    \A k \in 1..Len(fn.result) :
      LET r == fn.result[k]
          departure == DepartureOfFirstTransitStep(r.steps)
      IN r.startAtISO =
           IF IsSome(departure) THEN departure
           ELSE IF fn.request.timeMode = "arriveBy"
           THEN estimateStartAtISOFromArrival(Some(fn.request.time), r.durationSeconds)
           ELSE Some(ToISOString(fn.request.time))

-----------------------------------------------------------------------------
(* Properties of the planner (Spec) *)

\* the call the plan asks for between stop i and stop i + 1, i counted from 0
ConsecutivePairCall(list, i) ==
  [leg |-> i,
   origin |-> Get(list[i + 1].place).location,
   destination |-> Get(list[i + 2].place).location,
   timeMode |-> "arriveBy",
   time |-> Get(list[i + 2].arriveBy)]

\* the calls issued so far are those of the pairs 0..run.i, in that order
C1_IssuedInOrder ==
  /\ run.pc = "await" =>
       /\ Len(issued) = run.i + 1
       /\ Len(issued) <= Len(run.stops) - 1
       /\ \A k \in 1..Len(issued) : issued[k] = ConsecutivePairCall(run.stops, k - 1)
  /\ inflight \subseteq {issued[k] : k \in 1..Len(issued)}

\* a step that issues a call starts a computation with the call of pair 0 or
\* follows a response with the call of the next pair; a computation that ends
\* without a failure has issued n - 1 calls; a failure issues nothing
C1_IssueStep ==
  /\ issued' # issued =>
       \/ /\ run.pc = "idle" /\ run'.pc = "await"
          /\ issued' = <<ConsecutivePairCall(run'.stops, 0)>>
       \/ /\ run.pc = "await" /\ run'.pc = "await"
          /\ run'.stops = run.stops
          /\ rejections' = rejections
          /\ issued' = Append(issued, ConsecutivePairCall(run.stops, run.i + 1))
  /\ (run.pc = "await" /\ run'.pc = "idle" /\ rejections' = rejections) =>
       /\ Len(issued) = Len(run.stops) - 1
       /\ issued' = issued
  /\ rejections' # rejections => (issued' = issued /\ inflight' = {} /\ run'.pc = "idle")
  /\ (run.pc = "idle" /\ run'.pc = "idle") => (issued' = issued /\ inflight' = {})

\* C1: one computation calls the provider only for the consecutive pairs
\* (stop i, stop i + 1), in increasing i from 0, each call from stop i's
\* coordinate to stop i + 1's coordinate, arrive-by stop i + 1's arrival
\* constraint; n - 1 calls when none fails, and none after a failure
C1_ConsecutivePairsInOrder == [] C1_IssuedInOrder /\ [][C1_IssueStep]_vars

\* a plan of three stops was committed after its two calls
C1_Witness ==
  /\ screen = "Results"
  /\ Len(issued) = 2
  /\ Len(Get(params).stops) = 3
  /\ issued[2].origin = Get(params).stops[2].place.location
  /\ issued[2].destination = Get(params).stops[3].place.location

\* C2: at most one provider call is in flight; the call in flight is the one
\* of the leg after the legs whose responses were received and normalized and
\* whose records were appended
C2_OneCallInFlight ==
  /\ Cardinality(inflight) <= 1
  /\ \A q \in inflight :
       /\ run.pc = "await"
       /\ q.leg = run.i
       /\ Len(run.returned) = q.leg
       /\ Len(run.legs) = q.leg
       /\ \A k \in 1..Len(run.legs) :
            /\ run.legs[k].id = ToString(k - 1)
            /\ run.legs[k].fromStopId = run.stops[k].id
            /\ run.legs[k].toStopId = run.stops[k + 1].id

\* the call of the second leg is in flight
C2_Witness ==
  /\ Len(run.stops) = 3
  /\ \E q \in inflight : q.leg = 1 /\ Len(run.legs) = 1

\* a committed plan has a leg for every pair of consecutive stops
C3_NoPartialPlan ==
  IsSome(params) =>
    /\ Len(Get(params).legs) = Len(Get(params).stops) - 1
    /\ Len(normalized) = Len(Get(params).legs)

\* the step in which a provider call fails
C3_FailureStep ==
  rejections' # rejections =>
    /\ error' = Some(rejections'[Len(rejections')])
    /\ params' = params
    /\ normalized' = normalized
    /\ screen' = screen
    /\ issued' = issued
    /\ inflight' = {}
    /\ run'.pc = "idle"
    /\ ~searching'

\* C3: when a provider call fails the computation commits nothing, the Results
\* screen is not entered, the call is not issued again and the error state is
\* the message of the failed call
C3_FailureAbandonsPlan == [] C3_NoPartialPlan /\ [][C3_FailureStep]_vars

\* the call of the second leg failed and nothing was committed
C3_Witness ==
  /\ rejections # <<>>
  /\ Len(issued) = 2
  /\ error = Some(rejections[Len(rejections)])
  /\ params = None
  /\ screen = "PlanTrip"
  /\ run.pc = "idle"

\* the stop list is not ready
NotReady ==
  \/ Len(stops) < 2
  \/ \E k \in 1..Len(stops) : stops[k].place = None
  \/ \E k \in 2..Len(stops) : stops[k].arriveBy = None
  \/ \E k \in 2..(Len(stops) - 1) : stops[k].dwellMinutes < 0

\* C4: while the stop list is not ready, no step from the idle planning screen
\* issues a provider call, raises an error, or changes the searching flag, the
\* error state or the navigation state
C4_NotReadyNoEffect ==
  [][(NotReady /\ ~searching /\ screen = "PlanTrip") =>
       /\ issued' = issued
       /\ inflight' = inflight
       /\ searching' = searching
       /\ error' = error
       /\ screen' = screen
       /\ params' = params
       /\ run' = run
       /\ started' = started]_vars

\* the first two stops are resolved, the last one is not, and nothing was issued
C4_Witness ==
  /\ Len(stops) = 3
  /\ stops[1].place # None /\ stops[2].place # None /\ stops[3].place = None
  /\ edits > 0
  /\ ~searching /\ screen = "PlanTrip"
  /\ issued = <<>> /\ error = None /\ started = 0

\* the start of option r is undeterminable or not earlier than the instant
StartsNoEarlier(r, startMs) ==
  \/ r.startAtISO = None
  \/ DateParse(Get(r.startAtISO)) = None
  \/ Get(DateParse(Get(r.startAtISO))) >= startMs

\* C5: in the committed plan the options of leg 0 are exactly the normalized
\* options whose start is undeterminable or not earlier than the plan's start,
\* in their order; every later leg keeps all its normalized options
C5_FirstLegFilter ==
  IsSome(params) =>
    LET plan == Get(params)
        startMs == Get(DateParse(plan.startAt.startAtISO))
        Kept(r) == StartsNoEarlier(r, startMs)
    IN /\ Len(normalized) = Len(plan.legs)
       /\ \A k \in 1..Len(plan.legs) :
            plan.legs[k].routes = IF k = 1 THEN SelectSeq(normalized[k], Kept)
                                  ELSE normalized[k]

\* leg 0 lost an earlier option and kept one starting at the plan's start, and
\* leg 1 kept an option that starts before the plan's start
C5_Witness ==
  /\ IsSome(params)
  /\ Len(Get(params).legs) = 2
  /\ Len(normalized[1]) = 2
  /\ Len(Get(params).legs[1].routes) = 1
  /\ DateParse(Get(Get(params).legs[1].routes[1].startAtISO))
       = DateParse(Get(params).startAt.startAtISO)
  /\ \E j \in 1..Len(Get(params).legs[2].routes) :
       LET r == Get(params).legs[2].routes[j]
       IN /\ r.startAtISO # None
          /\ DateParse(Get(r.startAtISO)) # None
          /\ Get(DateParse(Get(r.startAtISO)))
               < Get(DateParse(Get(params).startAt.startAtISO))

\* the duration of the option that stands for leg k: the pinned one, else the first
DurationOfRepresentative(plan, k) ==
  LET routes == plan.legs[k].routes
      pinned == {j \in 1..Len(routes) : chosen[k] = Some(routes[j].id)}
  IN IF pinned # {} THEN routes[CHOOSE j \in pinned : TRUE].durationSeconds
     ELSE IF routes # <<>> THEN routes[1].durationSeconds
     ELSE None

\* C6: leg k > 0 has a warning exactly when the arrival at its end minus the
\* duration of its representative option is resolvable and earlier than the
\* arrival at its start plus the dwell there; the warning carries the estimated
\* departure, the previous arrival and the dwell; leg 0 has no warning
C6_WarningIffTooTight ==
  (screen = "Results" /\ IsSome(params)) =>
    LET plan == Get(params)
        warnings == FeasibilityWarnings(plan, chosen)
    IN /\ \A w \in warnings : w.leg \in 2..Len(plan.legs)
       /\ \A k \in 2..Len(plan.legs) :
            LET duration == DurationOfRepresentative(plan, k)
                previousArrival == Get(plan.stops[k].arriveByISO).ms
                arrival == Get(plan.stops[k + 1].arriveByISO).ms
                dwell == Get(plan.stops[k].dwellMinutes)
                tooTight == /\ IsSome(duration)
                            /\ arrival - Get(duration) * 1000 < previousArrival + dwell * 60000
            IN /\ tooTight <=> \E w \in warnings : w.leg = k
               /\ \A w \in warnings :
                    w.leg = k => /\ w.estimatedDepartureMs = arrival - Get(duration) * 1000
                                 /\ w.previousArrivalMs = previousArrival
                                 /\ w.dwellMinutes = dwell

\* a leg that is feasible under its first option has a warning once a slower
\* option is pinned
C6_Witness ==
  /\ screen = "Results" /\ IsSome(params)
  /\ Len(Get(params).legs) = 2
  /\ chosen[2] = Some("1")
  /\ FeasibilityWarnings(Get(params), chosen) # {}
  /\ FeasibilityWarnings(Get(params), [k \in 1..2 |-> None]) = {}

\* the raw steps of a provider route, over all its legs
RECURSIVE RawStepCount(_)
RawStepCount(legs) == IF legs = <<>> THEN 0 ELSE Len(Head(legs)) + RawStepCount(Tail(legs))

\* C11: the options of every leg of the committed plan are, in the provider's
\* order, options of the provider's response; each id is the stringified
\* position (from 0) of its route in that response, and ids are distinct
C11_RoutesKeepOrderAndIds ==
  IsSome(params) =>
    LET plan == Get(params)
    IN /\ Len(responses) = Len(plan.legs)
       /\ \A k \in 1..Len(plan.legs) :
            LET routes == plan.legs[k].routes
                raw == responses[k]
                Position(j) == CHOOSE p \in 1..Len(raw) : ToString(p - 1) = routes[j].id
            IN /\ \A j \in 1..Len(routes) :
                    /\ \E p \in 1..Len(raw) : ToString(p - 1) = routes[j].id
                    /\ Len(routes[j].steps) = RawStepCount(raw[Position(j)].legs)
                    /\ routes[j].durationSeconds
                         = parseDurationSeconds(raw[Position(j)].duration)
               /\ \A i, j \in 1..Len(routes) :
                    i < j => /\ routes[i].id # routes[j].id
                             /\ Position(i) < Position(j)

\* the first leg lost the provider's first route and shows the second as "1"
C11_Witness ==
  /\ IsSome(params)
  /\ Len(responses[1]) = 2
  /\ Len(Get(params).legs[1].routes) = 1
  /\ Get(params).legs[1].routes[1].id = "1"

\* C12: once the user has left the planning screen, the response that arrives
\* commits nothing: the plan state stays as it is and the Results screen is not
\* entered
C12_LeftResponseDiscarded ==
  [][screen = "Away" =>
       /\ params' = params
       /\ normalized' = normalized
       /\ screen' # "Results"]_vars

\* while a computation is suspended the searching flag is set, and the calls
\* in flight are calls of that computation; every started search has failed,
\* committed, or is the one in progress
C13_OneComputation ==
  /\ run.pc = "await" => searching
  /\ inflight # {} => run.pc = "await"
  /\ inflight \subseteq {ConsecutivePairCall(run.stops, k) : k \in 0..(Len(run.stops) - 2)}
  /\ started >= Len(rejections) + (IF run.pc = "await" THEN 1 ELSE 0)
                  + (IF IsSome(params) THEN 1 ELSE 0)

\* a search starts only when none is in progress, and a plan is committed only
\* by the step that ends the computation in progress
C13_StartAndCommitStep ==
  /\ started' # started =>
       (~searching /\ run.pc = "idle" /\ inflight = {} /\ started' = started + 1)
  /\ (run.pc = "idle" /\ run'.pc = "await") => started' = started + 1
  /\ (params' # params \/ (screen' = "Results" /\ screen # "Results")) =>
       (run.pc = "await" /\ run'.pc = "idle" /\ searching /\ ~searching')

C14_FlagCoversComputation == (run.pc = "await" \/ inflight # {}) => searching

\* the step that ends a computation, by a commit or by a failure, clears the flag
C14_EndStep ==
  /\ (run.pc = "await" /\ run'.pc = "idle") => (searching /\ ~searching')
  /\ (searching /\ ~searching') => (run.pc = "await" /\ run'.pc = "idle")
  /\ (run.pc = "await" /\ run'.pc = "await") => (searching /\ searching')

\* C14: searching is true whenever a provider call of the computation is in
\* flight or pending between legs, it is cleared when the computation ends by a
\* commit or by a failure, and with a provider that answers every call a
\* computation is eventually followed by searching = false
C14_SearchingFlag ==
  /\ [] C14_FlagCoversComputation
  /\ [][C14_EndStep]_vars
  /\ (searching ~> ~searching)

\* a computation of two legs has ended with a committed plan and a cleared flag
C14_Witness ==
  /\ ~searching
  /\ started = 1
  /\ IsSome(params)
  /\ Len(Get(params).legs) = 2
  /\ run.pc = "idle"
  /\ inflight = {}

\* C15: a committed plan of n stops has n - 1 legs in stop order; leg i goes
\* from stop i to stop i + 1, carries stop i + 1's arrival constraint, and
\* carries dwell 0 for i = 0 and stop i's dwell minutes otherwise
C15_LegsFollowStops ==
  IsSome(params) =>
    LET plan == Get(params)
    IN /\ Len(plan.legs) = Len(plan.stops) - 1
       /\ \A k \in 1..Len(plan.legs) :
            /\ plan.legs[k].id = ToString(k - 1)
            /\ plan.legs[k].fromStopId = plan.stops[k].id
            /\ plan.legs[k].toStopId = plan.stops[k + 1].id
            /\ Some(plan.legs[k].arriveByISO) = plan.stops[k + 1].arriveByISO
            /\ plan.legs[k].dwellMinutesAtFromStop
                 = IF k = 1 THEN 0 ELSE Get(plan.stops[k].dwellMinutes)
       /\ \A k \in 1..(Len(plan.legs) - 1) :
            plan.legs[k].toStopId = plan.legs[k + 1].fromStopId

\* a plan of three stops whose legs end at different instants and whose
\* second leg carries the dwell of the middle stop
C15_Witness ==
  /\ IsSome(params)
  /\ Len(Get(params).stops) = 3
  /\ Get(params).legs[1].arriveByISO # Get(params).legs[2].arriveByISO
  /\ Get(params).legs[1].dwellMinutesAtFromStop = 0
  /\ Get(params).legs[2].dwellMinutesAtFromStop = DefaultDwell

\* the stop list has two stops or more, its first stop has no arrival
\* constraint and every other stop has one
C16_StopListShape ==
  /\ Len(stops) >= 2
  /\ stops[1].arriveBy = None
  /\ \A k \in 2..Len(stops) : stops[k].arriveBy # None

\* C16: after any sequence of edits the stop list has at least 2 stops, the
\* first stop is never removed and has no arrival constraint, and every other
\* stop has an arrival constraint
C16_StopListInvariant ==
  [] C16_StopListShape /\ [][stops'[1].id = stops[1].id]_vars

\* after two gestures or more the middle stop of three is gone and the third
\* stop has closed up behind the first
C16_Witness ==
  /\ edits >= 2
  /\ Len(stops) = 2
  /\ stops[2].id = 3
  /\ C16_StopListShape

-----------------------------------------------------------------------------
(* Properties of the itinerary text summarizer (SpecNormalizer) *)

IsWalkStep(steps, a) == steps[a].travelMode = Some("WALK")

\* the steps at which a maximal run of walk steps starts
WalkRunStarts(steps) ==
  {a \in 1..Len(steps) : IsWalkStep(steps, a) /\ (a = 1 \/ ~IsWalkStep(steps, a - 1))}

\* the last step of the maximal run that starts at a
WalkRunEnd(steps, a) ==
  CHOOSE b \in a..Len(steps) :
    /\ \A k \in a..b : IsWalkStep(steps, k)
    /\ b = Len(steps) \/ ~IsWalkStep(steps, b + 1)

\* total seconds of the steps a..b, an absent duration counted as 0
RECURSIVE SecondsOfSteps(_, _, _)
SecondsOfSteps(steps, a, b) ==
  IF a > b THEN 0
  ELSE (IF steps[a].durationSeconds = None THEN 0 ELSE Get(steps[a].durationSeconds))
         + SecondsOfSteps(steps, a + 1, b)

\* seconds / 60 rounded to the nearest minute, halves upward, and at least 1
RoundedMinutes(seconds) ==
  LET m == CHOOSE n \in 0..(seconds + 1) : 60 * n - 30 <= seconds /\ seconds < 60 * n + 30
  IN IF m < 1 THEN 1 ELSE m

\* the line of the run a..b: "Walk <m> min", and " to <stop>" when the run is
\* ended by a transit step whose departure stop is known
ExpectedWalkLine(steps, a, b) ==
  <<"Walk", ToString(RoundedMinutes(SecondsOfSteps(steps, a, b))), "min">>
    \o (IF /\ b < Len(steps)
           /\ steps[b + 1].travelMode = Some("TRANSIT")
           /\ steps[b + 1].transitDetails # None
           /\ Get(steps[b + 1].transitDetails).departureStop \notin {None, Some("")}
        THEN <<"to", Get(Get(steps[b + 1].transitDetails).departureStop)>>
        ELSE <<>>)

IsWalkLine(line) == Len(line) >= 3 /\ line[1] = "Walk" /\ line[3] = "min"

\* C17: the walk lines of a route are, in order, one line per maximal run of
\* walk steps whose total duration is positive, reading "Walk <m> min" with
\* m = max(1, total seconds / 60 rounded to the nearest minute); a run never
\* gets a line per step and a run of total 0 gets none
C17_OneLinePerWalkRun ==
  NormalizerDone =>
    \A k \in 1..Len(fn.result) :
      LET steps == fn.result[k].steps
          walkLines == SelectSeq(fn.result[k].keyInstructions, IsWalkLine)
          positive == {a \in WalkRunStarts(steps) :
                         SecondsOfSteps(steps, a, WalkRunEnd(steps, a)) > 0}
      IN /\ Len(walkLines) = Cardinality(positive)
         /\ \A a \in positive :
              walkLines[Cardinality({x \in positive : x <= a})]
                = ExpectedWalkLine(steps, a, WalkRunEnd(steps, a))

\* walk steps of 90 s and 150 s gave the one line "Walk 4 min"
C17_Witness ==
  /\ NormalizerDone
  /\ Len(fn.result) = 1
  /\ Len(fn.result[1].steps) = 2
  /\ fn.result[1].steps[1].durationSeconds = Some(90)
  /\ fn.result[1].steps[2].durationSeconds = Some(150)
  /\ IsWalkStep(fn.result[1].steps, 1) /\ IsWalkStep(fn.result[1].steps, 2)
  /\ fn.result[1].keyInstructions = <<<<"Walk", "4", "min">>>>

\* the text of a time of the transit detail: the localized text when there is
\* one, else the formatted instant, else nothing
TransitTimeText(localized, iso) ==
  IF localized # None /\ Get(localized) # "" THEN localized
  ELSE IF iso # None /\ DateParse(Get(iso)) # None
  THEN Some(ToLocaleTimeString(Get(DateParse(Get(iso)))))
  ELSE None

Optional(prefix, o) == IF o = None \/ o = Some("") THEN <<>> ELSE prefix \o <<Get(o)>>

\* "Take", vehicle, optional line, "at" and the departure time, optional
\* "toward" headsign, optional "from" stop, optional "to" stop, optional
\* "(arrive at" time ")"; absent when the step has no departure time to put
\* after "at"
ClaimedTransitLine(td) ==
  LET departure == TransitTimeText(td.localizedDeparture, td.departureTime)
      arrival == TransitTimeText(td.localizedArrival, td.arrivalTime)
      vehicle == IF td.vehicleName # None THEN Get(td.vehicleName)
                 ELSE IF td.vehicleType # None THEN Get(td.vehicleType)
                 ELSE "Transit"
      line == IF td.lineNameShort # None THEN td.lineNameShort ELSE td.lineName
  IN IF departure = None THEN None
     ELSE Some(<<"Take", vehicle>> \o Optional(<<>>, line)
                 \o <<"at", Get(departure)>>
                 \o Optional(<<"toward">>, td.headsign)
                 \o Optional(<<"from">>, td.departureStop)
                 \o Optional(<<"to">>, td.arrivalStop)
                 \o (IF arrival = None THEN <<>>
                     ELSE <<"(arrive", "at", Get(arrival) \o ")">>))

IsTakeLine(line) == Len(line) >= 1 /\ line[1] = "Take"

\* C18: every transit step that carries transit detail gives exactly one line,
\* with the tokens "Take", vehicle, optional line, "at" and the departure
\* time, optional "toward" headsign, optional "from" stop, optional "to" stop,
\* optional "(arrive at" time ")" in this order
C18_TransitLineTokens ==
  NormalizerDone =>
    \A k \in 1..Len(fn.result) :
      LET steps == fn.result[k].steps
          takeLines == SelectSeq(fn.result[k].keyInstructions, IsTakeLine)
          transit == {a \in 1..Len(steps) : /\ steps[a].travelMode = Some("TRANSIT")
                                            /\ steps[a].transitDetails # None}
      IN /\ Len(takeLines) = Cardinality(transit)
         /\ \A a \in transit :
              Some(takeLines[Cardinality({x \in transit : x <= a})])
                = ClaimedTransitLine(Get(steps[a].transitDetails))

-----------------------------------------------------------------------------
(* Properties of the transport (SpecHttp) *)

HttpFetched == fn.op = "googleFetchJson" /\ fn.pc # "await"

\* the message that carries a status code and a body text
StatusMessage(status, text) == "Google API error " \o ToString(status) \o ": " \o text

\* C20: a response with a non-success status ends the call with an error whose
\* message carries the status code and the body text, the empty text when the
\* body cannot be read, and never with a parsed result; a response with a
\* success status never raises an error of this kind
C20_FailureStatusRaises ==
  HttpFetched =>
    IF fn.res.status < 200 \/ fn.res.status > 299
    THEN /\ fn.outcome.kind = "error"
         /\ fn.outcome.value = None
         /\ fn.outcome.message
              = StatusMessage(fn.res.status,
                              IF fn.res.text = None THEN "" ELSE Get(fn.res.text))
    ELSE \/ fn.outcome.kind = "value" /\ fn.outcome.value = fn.res.json
         \/ /\ fn.outcome.kind = "error"
            /\ \A st \in Statuses, t \in BodyTexts \ {None} :
                 fn.outcome.message # StatusMessage(st, Get(t))

\* a 403 whose body cannot be read raised "Google API error 403: " although
\* the response carried a parsable body
C20_Witness ==
  /\ HttpFetched
  /\ fn.res.status = 403
  /\ fn.res.text = None
  /\ fn.res.json = Some(DataCafe)
  /\ fn.outcome = Threw("Google API error 403: ")

\* the lookup's Response has been turned into the outcome of getPlaceDetails
HttpLookedUp == fn.op = "googleFetchJson" /\ fn.pc = "done"

\* the body of the response carries a number in the field of its location
HasNumeric(res, field) ==
  /\ res.json # None
  /\ Get(res.json).location # None
  /\ Get(Get(res.json).location)[field] # None
  /\ Get(Get(Get(res.json).location)[field]).type = "number"

LacksCoordinates(res) == ~HasNumeric(res, "latitude") \/ ~HasNumeric(res, "longitude")

\* the lookup in flight settles in this step
LookupSettles(l) == l \in lookups /\ lookups' = lookups \ {l}

\* C19: a place lookup whose response lacks a numeric latitude or longitude ends
\* with an error (the data-shape error when the response was otherwise good) and
\* with no place; a place it does yield carries the response's own coordinates,
\* and no stop ever holds a place at the defaulted coordinate (0,0); when the
\* lookup started by picking a suggestion fails, the step that settles it leaves
\* the stop list as it was
C19_MissingCoordinatesFail ==
  /\ [](HttpLookedUp =>
          /\ LacksCoordinates(fn.res) =>
                /\ fn.details.kind = "error"
                /\ fn.details.value = None
                /\ (fn.res.status \in 200..299 /\ fn.res.json # None)
                     => fn.details.message = "Place details missing lat/lng"
          /\ fn.details.kind = "value" =>
                /\ ~LacksCoordinates(fn.res)
                /\ Get(fn.details.value).location.lat
                     = Get(Get(Get(fn.res.json).location).latitude).num
                /\ Get(fn.details.value).location.lng
                     = Get(Get(Get(fn.res.json).location).longitude).num)
  /\ [](\A k \in 1..Len(stops) :
          stops[k].place # None =>
            /\ Get(stops[k].place).location.lat # 0
            /\ Get(stops[k].place).location.lng # 0)
  /\ [][\A l \in lookups :
         (HttpLookedUp /\ LookupSettles(l)
            /\ (LacksCoordinates(fn.res) \/ fn.res.status \notin 200..299))
           => stops' = stops]_vars

\* the suggestion picked for the first stop was looked up, the response had a
\* location without latitude, the lookup threw and settled, and the stop still
\* has its typed text and no place
C19_Witness ==
  /\ HttpLookedUp
  /\ edits >= 1
  /\ lookups = {}
  /\ fn.res.status = 200
  /\ fn.res.json = Some(DataNoLatitude)
  /\ fn.details = Threw("Place details missing lat/lng")
  /\ activeStopIndex = Some(0)
  /\ At(stops, 0).text = "qq"
  /\ At(stops, 0).place = None

-----------------------------------------------------------------------------
(* Order of the summarizer's lines (SpecNormalizer) *)

\* the walk line owed for the maximal run of walk steps that ends at step b:
\* none when b is no walk step or the run's total duration is 0
PendingWalkLine(steps, b) ==
  IF b < 1 \/ ~IsWalkStep(steps, b) THEN <<>>
  ELSE LET a == CHOOSE x \in WalkRunStarts(steps) : WalkRunEnd(steps, x) = b
       IN IF SecondsOfSteps(steps, a, b) > 0 THEN <<ExpectedWalkLine(steps, a, b)>> ELSE <<>>

IsDetailedTransit(steps, a) ==
  steps[a].travelMode = Some("TRANSIT") /\ steps[a].transitDetails # None

\* stands for the line of a transit step with detail, whose wording is not at issue
TakeLineMark == <<"Take">>

\* the lines owed from step a on: for each non-walk step the pending walk line
\* and then the step's own line, and the walk line pending after the last step
RECURSIVE ClaimedLines(_, _)
ClaimedLines(steps, a) ==
  IF a > Len(steps) THEN PendingWalkLine(steps, Len(steps))
  ELSE IF IsWalkStep(steps, a) THEN ClaimedLines(steps, a + 1)
  ELSE PendingWalkLine(steps, a - 1)
         \o (IF IsDetailedTransit(steps, a) THEN <<TakeLineMark>>
             ELSE IF steps[a].instruction # "" THEN <<<<steps[a].instruction>>>>
             ELSE <<>>)
         \o ClaimedLines(steps, a + 1)

\* C21: the lines of a route follow its steps in order: before the line of each
\* non-walk step comes the one walk line of the walk time pending since the
\* previous non-walk step, and the walk time pending after the last step gives
\* the last line; a step that is neither walk nor transit with detail gives its
\* raw instruction text unchanged, or nothing when that text is empty; a route
\* without steps has no lines
C21_LinesInStepOrder ==
  NormalizerDone =>
    \A k \in 1..Len(fn.result) :
      LET steps == fn.result[k].steps
          out == fn.result[k].keyInstructions
          claimed == ClaimedLines(steps, 1)
      IN /\ Len(out) = Len(claimed)
         /\ \A n \in 1..Len(claimed) :
              IF claimed[n] = TakeLineMark THEN IsTakeLine(out[n]) /\ Len(out[n]) > 1
              ELSE out[n] = claimed[n]
         /\ steps = <<>> => out = <<>>

\* a step of an unrecognized mode followed by a walk of 90 s gave its raw text
\* and then the walk line of the final flush
C21_Witness ==
  /\ NormalizerDone
  /\ Len(fn.result) = 1
  /\ Len(fn.result[1].steps) = 2
  /\ fn.result[1].steps[1].travelMode = Some("DRIVE")
  /\ fn.result[1].steps[1].instruction = "Head north"
  /\ IsWalkStep(fn.result[1].steps, 2)
  /\ fn.result[1].steps[2].durationSeconds = Some(90)
  /\ fn.result[1].keyInstructions = <<<<"Head north">>, <<"Walk", "2", "min">>>>

-----------------------------------------------------------------------------
(* The plan-level start of a computation (Spec) *)

\* the step that starts a computation resolves the start, in the same step that
\* issues the first call: an instant of the clock in 'now' mode, the chosen
\* timestamp in 'custom' mode
C22_ResolvedAtStart ==
  (run.pc = "idle" /\ run'.pc = "await") =>
    /\ inflight = {} /\ Len(issued') = 1
    /\ run'.startTimeMode = startTimeMode
    /\ startTimeMode = "now" => run'.startAt \in Times
    /\ startTimeMode = "custom" => run'.startAt = customStartAt

\* between its calls the computation keeps the start it resolved
C22_KeptWhilePending ==
  (run.pc = "await" /\ run'.pc = "await") =>
    /\ run'.startAt = run.startAt
    /\ run'.startTimeMode = run.startTimeMode

\* the commit carries the resolved start, filters leg 0 by it and no other leg
C22_UsedAtCommit ==
  (params' # params) =>
    LET plan == Get(params')
    IN /\ run.pc = "await"
       /\ plan.startAt = [mode |-> run.startTimeMode,
                          startAtISO |-> ToISOString(run.startAt)]
       /\ \A k \in 1..Len(plan.legs) :
            plan.legs[k].routes =
              IF k = 1
              THEN SelectSeq(normalized'[k], LAMBDA r : StartsNoEarlier(r, run.startAt))
              ELSE normalized'[k]

\* C22: the start of the plan is resolved once per computation, before the
\* first provider call (an instant of the clock in 'now' mode, the chosen
\* timestamp in 'custom' mode), and is not resolved again while calls are
\* pending; that value is the threshold of the filter of leg 0 and the
\* startAtISO committed with the plan, and the options of every other leg are
\* committed as the normalizer returned them
C22_StartResolvedOnce ==
  [][C22_ResolvedAtStart /\ C22_KeptWhilePending /\ C22_UsedAtCommit]_vars

\* a two-leg plan was committed in custom mode after the user had switched the
\* screen to 'now' during the computation: leg 0 lost every option to the
\* start, leg 1 kept an option that starts before it
C22_Witness ==
  /\ screen = "Results"
  /\ IsSome(params)
  /\ Get(params).startAt.mode = "custom"
  /\ startTimeMode = "now"
  /\ Len(Get(params).legs) = 2
  /\ normalized[1] # <<>>
  /\ Get(params).legs[1].routes = <<>>
  /\ \E j \in 1..Len(Get(params).legs[2].routes) :
       LET r == Get(params).legs[2].routes[j]
       IN /\ r.startAtISO # None
          /\ DateParse(Get(r.startAtISO)) # None
          /\ Get(DateParse(Get(r.startAtISO)))
               < Get(DateParse(Get(params).startAt.startAtISO))

-----------------------------------------------------------------------------
(* The stop list of a computation (Spec) *)

\* what a plan shows of a stop of the list at position k
CommittedStop(list, k) ==
  [id |-> list[k].id,
   place |-> Get(list[k].place),
   arriveByISO |-> IF k = 1 THEN None ELSE Some(ToISOString(Get(list[k].arriveBy))),
   dwellMinutes |-> IF k = 1 THEN None ELSE Some(list[k].dwellMinutes)]

\* the computation takes the stop list of the moment it starts
C23_TakenAtStart == (run.pc = "idle" /\ run'.pc = "await") => run'.stops = stops

\* while calls are pending the computation keeps its list whatever happens to
\* the screen's, and each further request is the one of its own list
C23_KeptWhilePending ==
  (run.pc = "await" /\ run'.pc = "await") =>
    /\ run'.stops = run.stops
    /\ issued' # issued =>
         issued' = Append(issued, ConsecutivePairCall(run.stops, Len(issued)))

\* the commit shows the stops and the legs of the computation's list
C23_CommitsOwnList ==
  (params' # params) =>
    LET plan == Get(params')
        ids == {plan.stops[k].id : k \in 1..Len(plan.stops)}
    IN /\ run.pc = "await"
       /\ plan.stops = [k \in 1..Len(run.stops) |-> CommittedStop(run.stops, k)]
       /\ Len(plan.legs) = Len(run.stops) - 1
       /\ \A k \in 1..Len(plan.legs) :
            /\ plan.legs[k].fromStopId = run.stops[k].id
            /\ plan.legs[k].toStopId = run.stops[k + 1].id
            /\ plan.legs[k].arriveByISO = ToISOString(Get(run.stops[k + 1].arriveBy))
            /\ plan.legs[k].fromStopId \in ids
            /\ plan.legs[k].toStopId \in ids

\* C23: a committed plan shows the stop list as it was when the search
\* started: edits, additions and removals of stops while provider calls are
\* pending change neither the remaining requests of the computation nor the
\* stops and legs it commits, and the from/to stop ids of every committed leg
\* are ids of committed stops
C23_PlanOfStartingStops ==
  [][C23_TakenAtStart /\ C23_KeptWhilePending /\ C23_CommitsOwnList]_vars

\* a plan of three stops and two legs was committed although the user had
\* removed a stop from the screen while its calls were pending
C23_Witness ==
  /\ screen = "Results"
  /\ IsSome(params)
  /\ Len(Get(params).stops) = 3
  /\ Len(Get(params).legs) = 2
  /\ Len(stops) = 2
  /\ edits > 0

-----------------------------------------------------------------------------
(* Properties of the editing of the stop list (SpecEditing) *)

\* C24: the step that settles a place lookup changes no stop other than the
\* one the suggestion was picked on, identified by its id, also when stops
\* were removed or added while the lookup was in flight
C24_DetailsToPickedStop ==
  [][\A l \in lookups :
       LookupSettles(l) =>
         /\ Len(stops') = Len(stops)
         /\ \A k \in 1..Len(stops) :
              stops'[k] # stops[k] => stops[k].id = l.pickedId]_vars

\* an arrive-by picker is open, attached to the stop index idx
StopPickerOpen(idx) == activeDatePicker = Some([kind |-> "stop", stopIndex |-> idx])

\* the open picker's index designates a stop that exists and is not the first
C25_PickerOnExistingStop ==
  \A idx \in 0..MaxStops : StopPickerOpen(idx) => idx \in 1..(Len(stops) - 1)

\* a step that leaves the picker open leaves it on the stop with the same id,
\* and a step that changes an arrival constraint changes the one of that stop
C25_PickerStep ==
  \A idx \in 0..MaxStops :
    (StopPickerOpen(idx) /\ activeDatePicker' = activeDatePicker) =>
      /\ idx \in 1..(Len(stops') - 1)
      /\ At(stops', idx).id = At(stops, idx).id
      /\ \A k \in 1..Len(stops) :
           (k <= Len(stops') /\ stops'[k].id = stops[k].id
              /\ stops'[k].arriveBy # stops[k].arriveBy) => k = idx + 1

\* C25: while an arrive-by picker is open its stop index designates an
\* existing stop other than the first, the picker stays on the stop with the
\* same id whatever stops are added or removed, and a date chosen in it
\* changes the arrival constraint of that stop only
C25_PickerFollowsStop == [] C25_PickerOnExistingStop /\ [][C25_PickerStep]_vars

\* the text a resolved stop shows: the address of its place, or the name when
\* the place has no address
TextOfPlace(place) == IF place.address # None THEN Get(place.address) ELSE place.name

\* every resolved stop shows the text of its place
C26_TextMatchesPlace ==
  \A k \in 1..Len(stops) :
    stops[k].place # None => stops[k].text = TextOfPlace(Get(stops[k].place))

\* a step that gives a stop a place gives it that place's text, and a step
\* that changes a stop's text otherwise leaves the stop without place and the
\* plan not ready
C26_TextStep ==
  \A k \in 1..Len(stops) :
    (k <= Len(stops') /\ stops'[k].id = stops[k].id) =>
      /\ (stops'[k].place # stops[k].place /\ stops'[k].place # None)
           => stops'[k].text = TextOfPlace(Get(stops'[k].place))
      /\ (stops'[k].text # stops[k].text /\ lookups' = lookups)
           => (stops'[k].place = None /\ ~canSearch')

\* C26: in every state a stop that has a place shows that place's address, or
\* its name when there is no address; a picked suggestion sets place and text
\* together, and a text edit of a stop clears the stop's place, so that the
\* plan is not ready until the stop is resolved again
C26_PlaceAndTextTogether == [] C26_TextMatchesPlace /\ [][C26_TextStep]_vars

\* after an edit the active first stop carries typed text and no place, beside
\* a resolved second stop, and the plan is not ready
C26_Witness ==
  /\ edits > 0
  /\ Len(stops) = 2
  /\ activeStopIndex = Some(0)
  /\ At(stops, 0).text = "qq"
  /\ At(stops, 0).place = None
  /\ At(stops, 1).place # None
  /\ At(stops, 1).text = TextOfPlace(Get(At(stops, 1).place))
  /\ ~canSearch

-----------------------------------------------------------------------------
(* The departure time of a transit line (SpecNormalizer) *)

\* C27: in the line of every transit step the token "at" that introduces the
\* departure is immediately followed by the departure time text of the step;
\* the line of a step whose departure time cannot be resolved has no such "at"
C27_AtFollowedByTime ==
  NormalizerDone =>
    \A k \in 1..Len(fn.result) :
      LET steps == fn.result[k].steps
          takeLines == SelectSeq(fn.result[k].keyInstructions, IsTakeLine)
          transit == {a \in 1..Len(steps) : IsDetailedTransit(steps, a)}
      IN /\ Len(takeLines) = Cardinality(transit)
         /\ \A a \in transit :
              LET line == takeLines[Cardinality({x \in transit : x <= a})]
                  td == Get(steps[a].transitDetails)
                  departure == TransitTimeText(td.localizedDeparture, td.departureTime)
              IN \A n \in 1..Len(line) :
                   (line[n] = "at" /\ (n = 1 \/ line[n - 1] # "(arrive")) =>
                     /\ departure # None
                     /\ n < Len(line)
                     /\ line[n + 1] = Get(departure)

-----------------------------------------------------------------------------
(* The error state of the planning screen (SpecRetry) *)

\* no error is shown while a computation is in progress, nor on the Results
\* screen its commit has opened
C28_NoErrorWhileOrAfterSuccess ==
  /\ (searching \/ run.pc = "await" \/ inflight # {}) => error = None
  /\ screen = "Results" => error = None

\* the error state changes only by the start of a search, which empties it,
\* or by the failure of the computation in progress, which sets the message;
\* a commit leaves it empty, so that it stays empty after a committed plan
\* until a later computation fails
C28_ErrorStep ==
  /\ (~searching /\ searching') => error' = None
  /\ params' # params => (error = None /\ error' = None)
  /\ error' # error =>
       \/ /\ error' = None
          /\ started' = started + 1
          /\ run.pc = "idle" /\ run'.pc = "await"
       \/ /\ error' # None
          /\ run.pc = "await" /\ run'.pc = "idle"
          /\ rejections' # rejections
          /\ params' = params

\* C28: the error state is emptied when a search starts and becomes non-empty
\* only by a computation that failed; it is empty during every computation in
\* progress and in every state after a computation that committed a plan
C28_ErrorOnlyAfterFailure == [] C28_NoErrorWhileOrAfterSuccess /\ [][C28_ErrorStep]_vars

\* the search after a failed one has committed a plan of two legs and the
\* error of the failed one is gone
C28_Witness ==
  /\ started = 1
  /\ params # None
  /\ Len(Get(params).legs) = 2
  /\ screen = "Results"
  /\ rejections = <<>>
  /\ error = None

\* the active stop index is null or an index of the stop list
C29_ActiveIndexValid ==
  activeStopIndex = None \/ Get(activeStopIndex) \in 0..(Len(stops) - 1)

\* the index, counted from 0, of the stop a step removes
RemovedIndex ==
  CHOOSE r \in 0..(Len(stops) - 1) : \A k \in 1..Len(stops') : stops'[k].id # At(stops, r).id

\* a step that removes a stop moves the active index with the stops
C29_RemovalStep ==
  (Len(stops') = Len(stops) - 1) =>
    /\ activeStopIndex = None => activeStopIndex' = None
    /\ activeStopIndex # None =>
         LET cur == Get(activeStopIndex)
         IN /\ cur = RemovedIndex => activeStopIndex' = None
            /\ cur > RemovedIndex => activeStopIndex' = Some(cur - 1)
            /\ cur < RemovedIndex => activeStopIndex' = Some(cur)
            /\ activeStopIndex' # None =>
                 At(stops', Get(activeStopIndex')).id = At(stops, cur).id

\* C29: in every state the active stop index is null or a valid index of the
\* stop list; removing the active stop makes it null, removing a stop before
\* the active one decrements it and removing a stop after it leaves it, so
\* that it designates the same stop before and after the removal
C29_ActiveIndexFollowsStop == [] C29_ActiveIndexValid /\ [][C29_RemovalStep]_vars

\* the middle stop of three was removed while the last one was active: the
\* active index went from 2 to 1 and still designates the stop with id 3
C29_Witness ==
  /\ edits = 1
  /\ Len(stops) = 2
  /\ At(stops, 1).id = 3
  /\ activeStopIndex = Some(1)

\* every stop's dwell is a whole number of minutes, zero or more
C30_DwellWholeNumbers ==
  \A k \in 1..Len(stops) : stops[k].dwellMinutes \in Nat

\* the plan is ready exactly when it has two stops or more, every stop has a
\* place and every stop but the first an arrival constraint: the dwell decides
\* nothing
C30_DwellNeverRefuses ==
  canSearch <=> /\ Len(stops) >= 2
                /\ \A k \in 1..Len(stops) : stops[k].place # None
                /\ \A k \in 2..Len(stops) : stops[k].arriveBy # None

\* the dwell a typed text stands for: the number its digits spell, 0 for a text
\* without digits and for digits beyond the finite numbers
DwellOfText(t) ==
  LET ds == SelectSeq(t, LAMBDA c : c \in {"0", "1", "2", "3", "4", "5", "6", "7", "8", "9"})
  IN IF Len(ds) > FiniteDigits THEN 0 ELSE DecimalValue(ds)

\* a step that changes the dwell of a stop stores the dwell of a typed text
C30_DwellStep ==
  \A k \in 1..Len(stops) :
    (k <= Len(stops') /\ stops'[k].id = stops[k].id
       /\ stops'[k].dwellMinutes # stops[k].dwellMinutes) =>
      \E t \in DwellTexts : stops'[k].dwellMinutes = DwellOfText(t)

\* C30: in every state the dwell minutes of every stop is a finite whole
\* number, zero or more: the dwell input keeps the digits of the typed text
\* and stores 0 for a text without digits and for a number that is not
\* finite, so that the dwell is never the reason a search is refused
C30_DwellFiniteNonNegative ==
  /\ [] C30_DwellWholeNumbers
  /\ [] C30_DwellNeverRefuses
  /\ [][C30_DwellStep]_vars

\* the text "-7" typed into the dwell input of the middle stop left the dwell 7
C30_Witness ==
  /\ edits > 0
  /\ Len(stops) = 3
  /\ At(stops, 1).dwellMinutes = 7

====
